---- MODULE Spec2Model ----
(***************************************************************************)
(* Model of the koreaferry FAQ matcher (api/ask.js and its revisions).     *)
(*                                                                         *)
(* The repository holds several revisions of the same handler.  The ones   *)
(* modelled here are                                                       *)
(*   "v1-strong"  src/api/ask.js 1-401      bestMatch, dynamic threshold   *)
(*   "v1.2"       src/api/ask.js 667-932    findBestMatch, 1-char exact    *)
(*   "v2.0.1"     src/unnamed/part_000      findBestMatch, language-scoped *)
(*   "v1-hant"    src/api/ask_20250922_1438... 702-1041  bestMatch with    *)
(*                the exact fast path and the 1-char exact carve-out       *)
(*                                                                         *)
(* A string is a sequence of characters; a character is one of the names  *)
(* below (a UTF-16 code unit of the Basic Multilingual Plane):             *)
(*   "p" "q"      Latin small letters with no precomposed caron form       *)
(*   "P"          LATIN CAPITAL LETTER P                                   *)
(*   "J" "j"      LATIN CAPITAL / SMALL LETTER J                           *)
(*   "caron"      U+030C COMBINING CARON                                   *)
(*   "jcaron"     U+01F0 LATIN SMALL LETTER J WITH CARON (no capital form) *)
(*   "fwP" "fwp"  U+FF30 / U+FF50 FULLWIDTH LATIN letter P                 *)
(*   "sp"         U+0020 SPACE (matched by \s, removed by trim)            *)
(*   "zw"         U+200B ZERO WIDTH SPACE (not matched by \s nor trim)     *)
(* A score or a threshold is an exact fraction [n, d], d > 0 (d = 0 for a  *)
(* division by zero, JavaScript's Infinity).                               *)
(***************************************************************************)
EXTENDS Integers, Sequences, FiniteSets, TLC

VARIABLES
    rev,                \* which revision of api/ask.js is deployed
    FAQS,               \* the corpus, loaded once at module load
    HARD_MIN,           \* Number(process.env.FAQ_HARD_MIN ?? 0.30)
    DEFAULT_THRESHOLD,  \* Number(process.env.FAQ_THRESHOLD ?? 0.30)
    MIN_QUERY_CHARS,    \* Number(process.env.FAQ_MIN_QUERY_CHARS ?? 2)
    call,               \* the last call made: its function, arguments, result
    inflight            \* the requests received by the exported handler, in
                        \* order of arrival: each with the position of its
                        \* handler and, once it has responded, its response

vars == <<rev, FAQS, HARD_MIN, DEFAULT_THRESHOLD, MIN_QUERY_CHARS, call, inflight>>

(***************************************************************************)
(* Bounds of the model.                                                    *)
(***************************************************************************)
MaxNormLen == 3
MaxScoreLen == 3
MaxThresholdLen == 7

(***************************************************************************)
(* Fractions.                                                              *)
(***************************************************************************)
RECURSIVE GCD(_, _)
GCD(a, b) == IF b = 0 THEN a ELSE GCD(b, a % b)

Abs(x) == IF x < 0 THEN -x ELSE x

Frac(n, d) ==
    IF d = 0 THEN [n |-> IF n > 0 THEN 1 ELSE IF n < 0 THEN -1 ELSE 0, d |-> 0]
    ELSE LET g == GCD(Abs(n), Abs(d))
             s == IF d < 0 THEN -1 ELSE 1
         IN  [n |-> s * (n \div g), d |-> s * (d \div g)]

Hundredths(x) == Frac(x, 100)

\* a < b, a <= b on fractions (d >= 0; n/0 with n > 0 is +Infinity)
FLt(a, b) == a.n * b.d < b.n * a.d
FLe(a, b) == a.n * b.d <= b.n * a.d
FMax(a, b) == IF FLt(a, b) THEN b ELSE a

(***************************************************************************)
(* Strings.                                                                *)
(***************************************************************************)
StringsOver(alphabet, n) == UNION {[1..k -> alphabet] : k \in 0..n}

RECURSIVE IsSubstringAt(_, _, _)
IsSubstringAt(s, t, i) ==
    \* t occurs in s at an index >= i
    IF i + Len(t) - 1 > Len(s) THEN FALSE
    ELSE IF SubSeq(s, i, i + Len(t) - 1) = t THEN TRUE
    ELSE IsSubstringAt(s, t, i + 1)

\* String.prototype.includes
includes(s, t) == IsSubstringAt(s, t, 1)

Whitespace == {"sp"}
Invisible  == {"zw"}

RECURSIVE trimStart(_)
trimStart(s) ==
    IF s # <<>> /\ Head(s) \in Whitespace THEN trimStart(Tail(s)) ELSE s

RECURSIVE trimEnd(_)
trimEnd(s) ==
    IF s # <<>> /\ s[Len(s)] \in Whitespace
    THEN trimEnd(SubSeq(s, 1, Len(s) - 1)) ELSE s

\* String.prototype.trim
trim(s) == trimEnd(trimStart(s))

\* String.prototype.startsWith
startsWith(s, t) == Len(t) <= Len(s) /\ SubSeq(s, 1, Len(t)) = t

RECURSIVE replaceFirst(_, _, _)
\* String.prototype.replace(a, b) with a one-character string a: the first
\* occurrence only
replaceFirst(s, a, b) ==
    IF s = <<>> THEN <<>>
    ELSE IF Head(s) = a THEN <<b>> \o Tail(s)
    ELSE <<Head(s)>> \o replaceFirst(Tail(s), a, b)

(***************************************************************************)
(* Unicode operations of the runtime, on the characters of the model.      *)
(***************************************************************************)
\* the compatibility mapping of one character (fullwidth forms fold to ASCII)
compat(c) ==
    CASE c = "fwP" -> "P"
      [] c = "fwp" -> "p"
      [] OTHER     -> c

RECURSIVE compose(_)
\* canonical composition: j + COMBINING CARON has the precomposed form U+01F0;
\* J + COMBINING CARON, p/q/P + COMBINING CARON have none
compose(s) ==
    IF Len(s) < 2 THEN s
    ELSE IF s[1] = "j" /\ s[2] = "caron"
         THEN <<"jcaron">> \o compose(SubSeq(s, 3, Len(s)))
         ELSE <<s[1]>> \o compose(Tail(s))

\* the canonical decomposition of one character
decompose(c) == IF c = "jcaron" THEN <<"j", "caron">> ELSE <<compat(c)>>

RECURSIVE decomposeAll(_)
decomposeAll(s) ==
    IF s = <<>> THEN <<>> ELSE decompose(Head(s)) \o decomposeAll(Tail(s))

\* String.prototype.normalize('NFKC'): compatibility decomposition, then
\* canonical composition
NFKC(s) == compose(decomposeAll(s))

\* the lower case of the ASCII capital letters, the upper case of the small
LowerOf ==
    [A |-> "a", B |-> "b", C |-> "c", D |-> "d", E |-> "e", F |-> "f", G |-> "g", H |-> "h", I |-> "i", J |-> "j", K |-> "k", L |-> "l", M |-> "m",
     N |-> "n", O |-> "o", P |-> "p", Q |-> "q", R |-> "r", S |-> "s", T |-> "t", U |-> "u", V |-> "v", W |-> "w", X |-> "x", Y |-> "y", Z |-> "z"]
UpperOf ==
    [a |-> "A", b |-> "B", c |-> "C", d |-> "D", e |-> "E", f |-> "F", g |-> "G", h |-> "H", i |-> "I", j |-> "J", k |-> "K", l |-> "L", m |-> "M",
     n |-> "N", o |-> "O", p |-> "P", q |-> "Q", r |-> "R", s |-> "S", t |-> "T", u |-> "U", v |-> "V", w |-> "W", x |-> "X", y |-> "Y", z |-> "Z"]

lowerChar(c) ==
    CASE c = "P"   -> "p"
      [] c = "J"   -> "j"
      [] c = "fwP" -> "fwp"
      [] OTHER     -> IF c \in DOMAIN LowerOf THEN LowerOf[c] ELSE c

upperChar(c) == IF c \in DOMAIN UpperOf THEN UpperOf[c] ELSE c

\* String.prototype.toUpperCase
toUpperCase(s) == [i \in 1..Len(s) |-> upperChar(s[i])]

\* String.prototype.toLowerCase
toLowerCase(s) == [i \in 1..Len(s) |-> lowerChar(s[i])]

IsInvisible(c) == c \in Invisible
IsSpace(c) == c \in Whitespace
NotInvisible(c) == ~IsInvisible(c)
NotSpace(c) == ~IsSpace(c)

(***************************************************************************)
(* Text utils of v1-strong (and, identically, of v1-hant).                 *)
(***************************************************************************)
stripInvis(s) == SelectSeq(s, NotInvisible)
clean(s)      == toLowerCase(NFKC(stripInvis(s)))
noSpace(s)    == SelectSeq(clean(s), NotSpace)

(***************************************************************************)
(* Text utils of v1.2 and v2.0.1.                                          *)
(***************************************************************************)
stripInvisibles(s) == SelectSeq(s, NotInvisible)
cleanText(s)       == toLowerCase(NFKC(stripInvisibles(s)))
removeSpaces(s)    == SelectSeq(cleanText(s), NotSpace)

(***************************************************************************)
(* Scoring of v1-strong: src/api/ask.js 58-111.                            *)
(***************************************************************************)
\* the elements of a sequence, as a set
Range(s) == {s[i] : i \in 1..Len(s)}

charSet(s) == Range(noSpace(s))

bigramSet(s) ==
    LET t == noSpace(s)
    IN  IF Len(t) < 2 THEN {}
        ELSE {<<t[i], t[i + 1]>> : i \in 1..(Len(t) - 1)}

\* the intersection subtracted twice: the symmetric difference as denominator
jaccardSets_SymmetricDifference(A, B) ==
    IF Cardinality(A) = 0 \/ Cardinality(B) = 0
    THEN [score |-> Frac(0, 1), inter |-> 0]
    ELSE LET inter == Cardinality({v \in A : v \in B})
         IN  [score |-> Frac(inter, Cardinality(A) + Cardinality(B) - 2 * inter),
              inter |-> inter]

\* the intersection not subtracted: |A| + |B| as denominator
jaccardSets_NoIntersection(A, B) ==
    IF Cardinality(A) = 0 \/ Cardinality(B) = 0
    THEN [score |-> Frac(0, 1), inter |-> 0]
    ELSE LET inter == Cardinality({v \in A : v \in B})
         IN  [score |-> Frac(inter, Cardinality(A) + Cardinality(B)),
              inter |-> inter]

\* the overlap relative to the first set alone: |A| as denominator
jaccardSets_OverFirstSet(A, B) ==
    IF Cardinality(A) = 0 \/ Cardinality(B) = 0
    THEN [score |-> Frac(0, 1), inter |-> 0]
    ELSE LET inter == Cardinality({v \in A : v \in B})
         IN  [score |-> Frac(inter, Cardinality(A)), inter |-> inter]

jaccardSets(A, B) ==
    IF Cardinality(A) = 0 \/ Cardinality(B) = 0
    THEN [score |-> Frac(0, 1), inter |-> 0]
    ELSE LET inter == Cardinality({v \in A : v \in B})
         IN  [score |-> Frac(inter, Cardinality(A) + Cardinality(B) - inter),
              inter |-> inter]

\* two-character queries as lax as the baseline
dynamicThreshold_LaxPairs(q) ==
    LET n == Len(noSpace(q))
    IN  IF n <= 1 THEN Hundredths(100)
        ELSE IF n = 2 THEN DEFAULT_THRESHOLD
        ELSE IF n = 3 THEN Hundredths(60)
        ELSE IF n <= 5 THEN Hundredths(40)
        ELSE DEFAULT_THRESHOLD

\* the tiers for 3 and for 4..5 characters exchanged
dynamicThreshold_TiersSwapped(q) ==
    LET n == Len(noSpace(q))
    IN  IF n <= 1 THEN Hundredths(100)
        ELSE IF n = 2 THEN Hundredths(98)
        ELSE IF n = 3 THEN Hundredths(40)
        ELSE IF n <= 5 THEN Hundredths(60)
        ELSE DEFAULT_THRESHOLD

dynamicThreshold(q) ==
    LET n == Len(noSpace(q))
    IN  IF n <= 1 THEN Hundredths(100)
        ELSE IF n = 2 THEN Hundredths(98)
        ELSE IF n = 3 THEN Hundredths(60)
        ELSE IF n <= 5 THEN Hundredths(40)
        ELSE DEFAULT_THRESHOLD

score(q, c) ==
    LET Q == noSpace(q)
        C == noSpace(c)
    IN  IF Q = <<>> \/ C = <<>> THEN Frac(0, 1)
        ELSE IF Q = C THEN Hundredths(100)
        ELSE IF includes(Q, C) \/ includes(C, Q) THEN Hundredths(98)
        ELSE LET QB == bigramSet(Q)
                 CB == bigramSet(C)
                 s1 == jaccardSets(QB, CB).score
             IN  IF QB # {} /\ CB # {} /\ FLt(Frac(0, 1), s1) THEN s1
                 ELSE jaccardSets(charSet(Q), charSet(C)).score

(***************************************************************************)
(* Scoring of v1.2 and v2.0.1: src/unnamed/part_000 64-84 (and, the same   *)
(* text, src/api/ask.js 723-738).                                          *)
(***************************************************************************)
getCharSet(s) == Range(removeSpaces(s))

getBigramSet(s) ==
    LET t == removeSpaces(s)
    IN  IF Len(t) < 2 THEN {}
        ELSE {SubSeq(t, i, i + 1) : i \in 1..(Len(t) - 1)}

jaccard(A, B) ==
    IF Cardinality(A) = 0 \/ Cardinality(B) = 0 THEN Frac(0, 1)
    ELSE LET I == Cardinality({v \in A : v \in B})
         IN  Frac(I, Cardinality(A) + Cardinality(B) - I)

calculateScore(q, c) ==
    LET Q == removeSpaces(q)
        C == removeSpaces(c)
    IN  IF Q = <<>> \/ C = <<>> THEN Frac(0, 1)
        ELSE IF Q = C THEN Hundredths(100)
        ELSE IF includes(Q, C) \/ includes(C, Q) THEN Hundredths(98)
        ELSE LET s1 == jaccard(getBigramSet(Q), getBigramSet(C))
             IN  IF FLt(Frac(0, 1), s1) THEN s1
                 ELSE jaccard(getCharSet(Q), getCharSet(C))

(***************************************************************************)
(* The effective threshold of bestMatch: src/api/ask.js 256-257.           *)
(***************************************************************************)
effectiveThreshold(q, baseThreshold) ==
    LET dynT == dynamicThreshold(q)
    IN  FMax(FMax(dynT, HARD_MIN), baseThreshold)

(***************************************************************************)
(* The corpus.  An entry is a record of its fields; a field is absent, a   *)
(* string, a list of strings (the flat schema, v1) or a map from language  *)
(* keys to strings / lists (the per-language schema, v2).                  *)
(***************************************************************************)
Absent  == [t |-> "absent"]
Str(v)  == [t |-> "str", v |-> v]
List(v) == [t |-> "list", v |-> v]
Map(v)  == [t |-> "map", v |-> v]

Entry(question, aliases, keywords_core, keywords_related) ==
    [question |-> question, aliases |-> aliases,
     keywords_core |-> keywords_core, keywords_related |-> keywords_related]

\* a candidate { text, from }
Cand(text, from) == [text |-> text, from |-> from]

\* the value null, and a match result { score, entry, matched, from }
\* (matched_from in v1-strong and v1-hant); entry is the index of the entry
\* in FAQS, 0 for the entry null of the initial best
Null == [null |-> TRUE]
Match(sc, entry, matched, from) ==
    [null |-> FALSE, score |-> sc, entry |-> entry, matched |-> matched,
     from |-> from]
InitialBest == Match(Frac(-1, 1), 0, <<>>, "")

(***************************************************************************)
(* Candidate builder of v1-strong: src/api/ask.js 226-244 (the same in     *)
(* v1-hant and, without the test of faq.question, in v1.2).                *)
(***************************************************************************)
\* push without the set of seen keys
push_WithoutSeen(out, text, from) ==
    IF text = <<>> THEN out ELSE Append(out, Cand(text, from))

\* push(text, from): String(text || ''), not trimmed; empty and seen skipped
push(out, text, from) ==
    IF text = <<>> THEN out
    ELSE IF \E k \in 1..Len(out) : out[k] = Cand(text, from) THEN out
    ELSE Append(out, Cand(text, from))

RECURSIVE pushAll(_, _, _, _)
pushAll(out, list, k, from) ==
    IF k > Len(list) THEN out
    ELSE pushAll(push(out, list[k], from), list, k + 1, from)

\* faq.aliases || []
OrEmpty(field) == IF field.t = "list" THEN field.v ELSE <<>>

buildCandidates(faq) ==
    LET o1 == IF faq.question.t = "str" /\ faq.question.v # <<>>
              THEN push(<<>>, faq.question.v, "question") ELSE <<>>
        o2 == pushAll(o1, OrEmpty(faq.aliases), 1, "alias")
        o3 == pushAll(o2, OrEmpty(faq.keywords_core), 1, "core")
    IN  pushAll(o3, OrEmpty(faq.keywords_related), 1, "related")

(***************************************************************************)
(* Candidate builder of v1.2: src/api/ask.js 805-817.                      *)
(***************************************************************************)
buildCandidates_v12(faq) ==
    LET o1 == push(<<>>, IF faq.question.t = "str" THEN faq.question.v ELSE <<>>,
                   "question")
        o2 == pushAll(o1, OrEmpty(faq.aliases), 1, "alias")
        o3 == pushAll(o2, OrEmpty(faq.keywords_core), 1, "core")
    IN  pushAll(o3, OrEmpty(faq.keywords_related), 1, "related")

(***************************************************************************)
(* Schema helpers and candidate builder of v2.0.1:                         *)
(* src/unnamed/part_000 133-173.                                           *)
(***************************************************************************)
\* field[lang] ?? field.ko ?? field.en ?? field.ja ?? field.zh_tw ?? field.zh_cn ?? ''
RECURSIVE firstDefined(_, _)
firstDefined(m, keys) ==
    IF keys = <<>> THEN <<>>
    ELSE IF Head(keys) \in DOMAIN m THEN m[Head(keys)]
    ELSE firstDefined(m, Tail(keys))

getTextByLang(field, lang) ==
    IF field.t = "str" THEN field.v
    ELSE IF field.t = "map"
         THEN firstDefined(field.v, <<lang, "ko", "en", "ja", "zh_tw", "zh_cn">>)
         ELSE <<>>

\* a plain array read as the Korean list only
getListByLang_KoreanOnly(field, lang) ==
    IF field.t = "list" THEN (IF lang = "ko" THEN field.v ELSE <<>>)
    ELSE IF field.t = "map"
         THEN IF lang \in DOMAIN field.v THEN field.v[lang] ELSE <<>>
         ELSE <<>>

getListByLang(field, lang) ==
    IF field.t = "list" THEN field.v
    ELSE IF field.t = "map"
         THEN IF lang \in DOMAIN field.v THEN field.v[lang] ELSE <<>>
         ELSE <<>>

\* add(text, from): String(text || '').trim(); empty and seen skipped
add(out, text, from) ==
    LET t == trim(text)
    IN  IF t = <<>> THEN out
        ELSE IF \E k \in 1..Len(out) : out[k] = Cand(t, from) THEN out
        ELSE Append(out, Cand(t, from))

RECURSIVE addAll(_, _, _, _)
addAll(out, list, k, from) ==
    IF k > Len(list) THEN out
    ELSE addAll(add(out, list[k], from), list, k + 1, from)

buildCandidates_v2(faq, lang) ==
    LET o1 == add(<<>>, getTextByLang(faq.question, lang), "question")
        o2 == addAll(o1, getListByLang(faq.aliases, lang), 1, "alias")
        o3 == addAll(o2, getListByLang(faq.keywords_core, lang), 1, "core")
    IN  addAll(o3, getListByLang(faq.keywords_related, lang), 1, "related")

(***************************************************************************)
(* Match selector of v1-strong: src/api/ask.js 251-270.                    *)
(***************************************************************************)
\* a later candidate with an equal score replaces the earlier one
bestMatch_track_LastSeen(best, sc, f, c) ==
    IF FLe(best.score, sc) THEN Match(sc, f, c.text, c.from) ELSE best

\* if (sc > best.score) best = { score: sc, entry: f, ... }
bestMatch_track(best, sc, f, c) ==
    IF FLt(best.score, sc) THEN Match(sc, f, c.text, c.from) ELSE best

RECURSIVE bestMatch_cands(_, _, _, _, _)
\* for (const c of cands) ...
bestMatch_cands(q, f, cands, j, best) ==
    IF j > Len(cands) THEN best
    ELSE LET c  == cands[j]
             sc == score(q, c.text)
         IN  bestMatch_cands(q, f, cands, j + 1,
                 bestMatch_track(best, sc, f, c))

RECURSIVE bestMatch_faqs(_, _, _)
\* for (const f of FAQS) ...
bestMatch_faqs(q, f, best) ==
    IF f > Len(FAQS) THEN best
    ELSE bestMatch_faqs(q, f + 1,
             bestMatch_cands(q, f, buildCandidates(FAQS[f]), 1, best))

bestMatch(question, lang, baseThreshold) ==
    LET q    == trim(question)
        qlen == Len(noSpace(q))
    IN  IF qlen < MIN_QUERY_CHARS THEN Null
        ELSE LET threshold == effectiveThreshold(q, baseThreshold)
                 best      == bestMatch_faqs(q, 1, InitialBest)
             IN  IF FLe(threshold, best.score) THEN best ELSE Null

(***************************************************************************)
(* Match selector of v1.2: src/api/ask.js 820-845.                         *)
(***************************************************************************)
\* the loops of the short-query branch: the first candidate whose stripped,
\* normalized text equals the query's, else null
RECURSIVE v12_exact_cands(_, _, _, _)
v12_exact_cands(qClean, f, cands, j) ==
    IF j > Len(cands) THEN Null
    ELSE IF removeSpaces(cands[j].text) = qClean
         THEN Match(Hundredths(100), f, cands[j].text, cands[j].from)
         ELSE v12_exact_cands(qClean, f, cands, j + 1)

RECURSIVE v12_exact_faqs(_, _)
v12_exact_faqs(qClean, f) ==
    IF f > Len(FAQS) THEN Null
    ELSE LET r == v12_exact_cands(qClean, f, buildCandidates_v12(FAQS[f]), 1)
         IN  IF ~r.null THEN r ELSE v12_exact_faqs(qClean, f + 1)

\* the loops of the main branch: [done, ret] on the early return of an exact
\* match, else [done = FALSE, best]
\* a later candidate with an equal score replaces the earlier one
v12_track_LastSeen(best, sc, f, c) ==
    IF FLe(best.score, sc) THEN Match(sc, f, c.text, c.from) ELSE best

\* if (sc > best.score) best = { score: sc, entry: f, ... }
v12_track(best, sc, f, c) ==
    IF FLt(best.score, sc) THEN Match(sc, f, c.text, c.from) ELSE best

RECURSIVE v12_cands(_, _, _, _, _, _)
v12_cands(q, qClean, f, cands, j, best) ==
    IF j > Len(cands) THEN [done |-> FALSE, best |-> best]
    ELSE LET c  == cands[j]
             cn == removeSpaces(c.text)
         IN  IF cn # <<>> /\ cn = qClean
             THEN [done |-> TRUE, ret |-> Match(Hundredths(100), f, c.text, c.from)]
             ELSE LET sc == calculateScore(q, c.text)
                  IN  v12_cands(q, qClean, f, cands, j + 1,
                          v12_track(best, sc, f, c))

RECURSIVE v12_faqs(_, _, _, _)
v12_faqs(q, qClean, f, best) ==
    IF f > Len(FAQS) THEN [done |-> FALSE, best |-> best]
    ELSE LET r == v12_cands(q, qClean, f, buildCandidates_v12(FAQS[f]), 1, best)
         IN  IF r.done THEN r ELSE v12_faqs(q, qClean, f + 1, r.best)

findBestMatch_v12(question) ==
    LET q      == trim(question)
        qClean == removeSpaces(q)
    IN  IF Len(qClean) < MIN_QUERY_CHARS THEN v12_exact_faqs(qClean, 1)
        ELSE LET r == v12_faqs(q, qClean, 1, InitialBest)
             IN  IF r.done THEN r.ret
                 ELSE IF FLe(DEFAULT_THRESHOLD, r.best.score) THEN r.best
                 ELSE Null

(***************************************************************************)
(* Match selector of v2.0.1: src/unnamed/part_000 176-197.                 *)
(***************************************************************************)
MAX_Q_LEN == 300

\* if (sc > best.score) best = { score: sc, entry: f, ... }
findBestMatch_track(best, sc, f, c) ==
    IF FLt(best.score, sc) THEN Match(sc, f, c.text, c.from) ELSE best

RECURSIVE findBestMatch_cands(_, _, _, _, _, _)
findBestMatch_cands(q, qClean, f, cands, j, best) ==
    IF j > Len(cands) THEN [done |-> FALSE, best |-> best]
    ELSE LET c  == cands[j]
             cn == removeSpaces(c.text)
         IN  IF cn # <<>> /\ cn = qClean
             THEN [done |-> TRUE, ret |-> Match(Hundredths(100), f, c.text, c.from)]
             ELSE LET sc == calculateScore(q, c.text)
                  IN  findBestMatch_cands(q, qClean, f, cands, j + 1,
                          findBestMatch_track(best, sc, f, c))

RECURSIVE findBestMatch_faqs(_, _, _, _, _)
findBestMatch_faqs(q, qClean, lang, f, best) ==
    IF f > Len(FAQS) THEN [done |-> FALSE, best |-> best]
    ELSE LET r == findBestMatch_cands(q, qClean, f,
                      buildCandidates_v2(FAQS[f], lang), 1, best)
         IN  IF r.done THEN r ELSE findBestMatch_faqs(q, qClean, lang, f + 1, r.best)

findBestMatch(question, lang) ==
    LET q0     == trim(question)
        q      == IF Len(q0) > MAX_Q_LEN THEN SubSeq(q0, 1, MAX_Q_LEN) ELSE q0
        qClean == removeSpaces(q)
    IN  IF qClean = <<>> THEN Null
        ELSE LET r == findBestMatch_faqs(q, qClean, lang, 1, InitialBest)
             IN  IF r.done THEN r.ret
                 ELSE IF FLe(DEFAULT_THRESHOLD, r.best.score) THEN r.best
                 ELSE Null

(***************************************************************************)
(* Match selector of v1-hant: src/api/ask_20250922_1438... 878-907.        *)
(* Its noSpace, dynamicThreshold and score (762-800) are those of         *)
(* v1-strong: score calls a jaccard that returns the number alone and     *)
(* computes the same value.                                               *)
(***************************************************************************)
RECURSIVE hant_exact_cands(_, _, _, _)
hant_exact_cands(qn, f, cands, j) ==
    IF j > Len(cands) THEN Null
    ELSE IF noSpace(cands[j].text) = qn
         THEN Match(Hundredths(100), f, cands[j].text, cands[j].from)
         ELSE hant_exact_cands(qn, f, cands, j + 1)

RECURSIVE hant_exact_faqs(_, _)
hant_exact_faqs(qn, f) ==
    IF f > Len(FAQS) THEN Null
    ELSE LET r == hant_exact_cands(qn, f, buildCandidates(FAQS[f]), 1)
         IN  IF ~r.null THEN r ELSE hant_exact_faqs(qn, f + 1)

\* if (sc > best.score) best = { score: sc, entry: f, ... }
hant_track(best, sc, f, c) ==
    IF FLt(best.score, sc) THEN Match(sc, f, c.text, c.from) ELSE best

RECURSIVE hant_cands(_, _, _, _, _, _)
hant_cands(q, qn, f, cands, j, best) ==
    IF j > Len(cands) THEN [done |-> FALSE, best |-> best]
    ELSE LET c  == cands[j]
             cn == noSpace(c.text)
         IN  IF cn # <<>> /\ cn = qn
             THEN [done |-> TRUE, ret |-> Match(Hundredths(100), f, c.text, c.from)]
             ELSE LET sc == score(q, c.text)
                  IN  hant_cands(q, qn, f, cands, j + 1,
                          hant_track(best, sc, f, c))

RECURSIVE hant_faqs(_, _, _, _)
hant_faqs(q, qn, f, best) ==
    IF f > Len(FAQS) THEN [done |-> FALSE, best |-> best]
    ELSE LET r == hant_cands(q, qn, f, buildCandidates(FAQS[f]), 1, best)
         IN  IF r.done THEN r ELSE hant_faqs(q, qn, f + 1, r.best)

bestMatch_hant(question, lang, baseT) ==
    LET q  == trim(question)
        qn == noSpace(q)
    IN  IF Len(qn) < MIN_QUERY_CHARS THEN hant_exact_faqs(qn, 1)
        ELSE LET threshold == effectiveThreshold(q, baseT)
                 r         == hant_faqs(q, qn, 1, InitialBest)
             IN  IF r.done THEN r.ret
                 ELSE IF FLe(threshold, r.best.score) THEN r.best
                 ELSE Null

(***************************************************************************)
(* Language tags.  A tag is a string of one-character names, the ASCII     *)
(* letters, "-", "_", ",", ";" and "sp" standing for themselves.           *)
(*   normalizeLangTag     src/api/ask.js 116-140        (v1-strong)        *)
(*   normalizeLangTag_v12 src/api/ask.js 741-753        (v1.2)             *)
(*   normalizeLangTag_v2  src/unnamed/part_000 88-97    (v2.0.1)           *)
(*   normalizeLangTag_hant src/api/ask_20250922_1438... 796-810 (v1-hant)  *)
(***************************************************************************)
\* String(tagRaw || '').toLowerCase().replace('_','-').trim()
tagForm(tagRaw) == trim(replaceFirst(toLowerCase(tagRaw), "_", "-"))

normalizeLangTag(tagRaw) ==
    LET t == tagForm(tagRaw)
    IN  IF t = <<>> THEN <<>>
        ELSE IF t = <<"z", "h">> \/ startsWith(t, <<"z", "h", "-">>)
        THEN IF includes(t, <<"t", "w">>) \/ includes(t, <<"h", "k">>) \/ includes(t, <<"m", "o">>)
                  \/ includes(t, <<"h", "a", "n", "t">>)
             THEN <<"z", "h", "-", "h", "a", "n", "t">>
             ELSE <<"z", "h", "-", "h", "a", "n", "s">>
        ELSE IF t = <<"z", "h", "_", "t", "w">> \/ t = <<"z", "h", "t", "w">> THEN <<"z", "h", "-", "h", "a", "n", "t">>
        ELSE IF t = <<"z", "h", "_", "c", "n">> \/ t = <<"z", "h", "c", "n">> THEN <<"z", "h", "-", "h", "a", "n", "s">>
        ELSE IF startsWith(t, <<"k", "o">>) THEN <<"k", "o">>
        ELSE IF startsWith(t, <<"j", "a">>) THEN <<"j", "a">>
        ELSE IF startsWith(t, <<"e", "n">>) THEN <<"e", "n">>
        ELSE t

normalizeLangTag_v12(tag) ==
    LET s == tagForm(tag)
    IN  IF s = <<>> THEN <<>>
        ELSE IF s = <<"z", "h">> \/ startsWith(s, <<"z", "h", "-">>)
        THEN IF includes(s, <<"c", "n">>) \/ includes(s, <<"s", "g">>) \/ includes(s, <<"h", "a", "n", "s">>)
             THEN <<"z", "h", "-", "h", "a", "n", "s">>
             ELSE <<"z", "h", "-", "h", "a", "n", "t">>
        ELSE IF s = <<"z", "h", "-", "t", "w">> \/ s = <<"z", "h", "t", "w">> THEN <<"z", "h", "-", "h", "a", "n", "t">>
        ELSE IF s = <<"z", "h", "-", "c", "n">> \/ s = <<"z", "h", "c", "n">> THEN <<"z", "h", "-", "h", "a", "n", "s">>
        ELSE IF startsWith(s, <<"k", "o">>) THEN <<"k", "o">>
        ELSE IF startsWith(s, <<"j", "a">>) THEN <<"j", "a">>
        ELSE IF startsWith(s, <<"e", "n">>) THEN <<"e", "n">>
        ELSE s

normalizeLangTag_v2(tag) ==
    LET s == tagForm(tag)
    IN  IF s = <<>> THEN <<>>
        ELSE IF startsWith(s, <<"k", "o">>) THEN <<"k", "o">>
        ELSE IF startsWith(s, <<"j", "a">>) THEN <<"j", "a">>
        ELSE IF startsWith(s, <<"e", "n">>) THEN <<"e", "n">>
        ELSE IF s = <<"z", "h", "-", "t", "w">> \/ s = <<"z", "h", "t", "w">> THEN <<"z", "h", "_", "t", "w">>
        ELSE IF startsWith(s, <<"z", "h">>) THEN <<"z", "h", "_", "t", "w">>
        ELSE s

normalizeLangTag_hant(t) ==
    LET s == tagForm(t)
    IN  IF s = <<>> THEN <<>>
        ELSE IF s = <<"z", "h">> \/ startsWith(s, <<"z", "h", "-">>)
        THEN IF includes(s, <<"c", "n">>) \/ includes(s, <<"s", "g">>) \/ includes(s, <<"h", "a", "n", "s">>)
             THEN <<"z", "h", "-", "h", "a", "n", "s">>
             ELSE <<"z", "h", "-", "h", "a", "n", "t">>
        ELSE IF s = <<"z", "h", "_", "t", "w">> \/ s = <<"z", "h", "t", "w">> THEN <<"z", "h", "-", "h", "a", "n", "t">>
        ELSE IF s = <<"z", "h", "_", "c", "n">> \/ s = <<"z", "h", "c", "n">> THEN <<"z", "h", "-", "h", "a", "n", "s">>
        ELSE IF startsWith(s, <<"k", "o">>) THEN <<"k", "o">>
        ELSE IF startsWith(s, <<"j", "a">>) THEN <<"j", "a">>
        ELSE IF startsWith(s, <<"e", "n">>) THEN <<"e", "n">>
        ELSE s

(***************************************************************************)
(* Answer selection.  The answers of an entry are an object: the sequence  *)
(* of its [k, v] properties in insertion order, k a key and v a text; its  *)
(* legacy fields answer, answer_ko, answer_ja, answer_zh, answer_en are    *)
(* absent or strings.  The empty text is '' (falsy).                       *)
(***************************************************************************)
Obj(props) == [t |-> "object", v |-> props]

AnswerEntry(answers, answer, answer_ko, answer_ja, answer_zh, answer_en) ==
    [answers |-> answers, answer |-> answer, answer_ko |-> answer_ko,
     answer_ja |-> answer_ja, answer_zh |-> answer_zh, answer_en |-> answer_en]

\* m[k], undefined read as the falsy ''
get(m, k) ==
    IF \E i \in 1..Len(m) : m[i].k = k
    THEN m[CHOOSE i \in 1..Len(m) : m[i].k = k].v
    ELSE <<>>

\* m[k] = v: an existing property keeps its place
set(m, k, v) ==
    IF \E i \in 1..Len(m) : m[i].k = k
    THEN [i \in 1..Len(m) |-> IF m[i].k = k THEN [k |-> k, v |-> v] ELSE m[i]]
    ELSE Append(m, [k |-> k, v |-> v])

RECURSIVE firstTruthy(_, _)
\* m[k1] || m[k2] || ... || ''
firstTruthy(m, keys) ==
    IF keys = <<>> THEN <<>>
    ELSE IF get(m, Head(keys)) # <<>> THEN get(m, Head(keys))
    ELSE firstTruthy(m, Tail(keys))

\* Object.values(m)[0] || ''
firstValue(m) == IF m = <<>> THEN <<>> ELSE m[1].v

\* String(k).toLowerCase().replace('_','-')
keyForm(k) == replaceFirst(toLowerCase(k), "_", "-")

\* entry[k] when it is a non-empty string, else ''
legacy(field) == IF field.t = "str" THEN field.v ELSE <<>>

(***************************************************************************)
(* pickAnswer of v1-strong: src/api/ask.js 176-221.                        *)
(***************************************************************************)
RECURSIVE normAns(_, _)
\* the loop over Object.entries(ans), from property i on
normAns(ans, i) ==
    IF i = 0 THEN <<>>
    ELSE LET kk == keyForm(ans[i].k)
             v  == ans[i].v
             m1 == set(normAns(ans, i - 1), kk, v)
             m2 == IF kk = <<"z", "h", "-", "t", "w">> THEN set(m1, <<"z", "h", "-", "h", "a", "n", "t">>, v) ELSE m1
         IN  IF kk = <<"z", "h", "-", "c", "n">> THEN set(m2, <<"z", "h", "-", "h", "a", "n", "s">>, v) ELSE m2

\* steps 2) to 4): the legacy fields
pickLegacy(entry, lang) ==
    LET alt == IF lang = <<"k", "o">> THEN legacy(entry.answer_ko)
               ELSE IF lang = <<"j", "a">> THEN legacy(entry.answer_ja)
               ELSE IF lang = <<"z", "h", "-", "h", "a", "n", "s">> \/ lang = <<"z", "h", "-", "h", "a", "n", "t">> THEN legacy(entry.answer_zh)
               ELSE IF lang = <<"e", "n">> THEN legacy(entry.answer_en)
               ELSE <<>>
    IN  IF alt # <<>> THEN alt
        ELSE IF legacy(entry.answer) # <<>> THEN legacy(entry.answer)
        ELSE IF legacy(entry.answer_ko) # <<>> THEN legacy(entry.answer_ko)
        ELSE IF legacy(entry.answer_ja) # <<>> THEN legacy(entry.answer_ja)
        ELSE IF legacy(entry.answer_zh) # <<>> THEN legacy(entry.answer_zh)
        ELSE legacy(entry.answer_en)

\* pickAnswer with the language kept in a variable of the module that the
\* latest request has set
pickAnswer_LanguageOfLatestRequest(entry, langInput) ==
    LET lang == IF inflight = <<>> THEN normalizeLangTag(langInput)
                ELSE normalizeLangTag(inflight[Len(inflight)].req.qlang)
    IN  IF entry.answers.t # "object" THEN pickLegacy(entry, lang)
        ELSE LET m == normAns(entry.answers.v, Len(entry.answers.v))
             IN  IF get(m, lang) # <<>> THEN get(m, lang)
                 ELSE firstTruthy(m, <<<<"k", "o">>, <<"j", "a">>, <<"z", "h", "-", "h", "a", "n", "t">>, <<"z", "h", "-", "h", "a", "n", "s">>, <<"z", "h">>, <<"e", "n">>>>)

pickAnswer(entry, langInput) ==
    LET lang == normalizeLangTag(langInput)
    IN  IF entry.answers.t # "object" THEN pickLegacy(entry, lang)
        ELSE LET m == normAns(entry.answers.v, Len(entry.answers.v))
             IN  IF lang = <<"z", "h", "-", "h", "a", "n", "t">>
                 THEN firstTruthy(m, <<<<"z", "h", "-", "h", "a", "n", "t">>, <<"z", "h">>, <<"z", "h", "-", "h", "a", "n", "s">>>>)
                 ELSE IF lang = <<"z", "h", "-", "h", "a", "n", "s">>
                 THEN firstTruthy(m, <<<<"z", "h", "-", "h", "a", "n", "s">>, <<"z", "h">>, <<"z", "h", "-", "h", "a", "n", "t">>>>)
                 ELSE IF get(m, lang) # <<>> THEN get(m, lang)
                 ELSE IF firstTruthy(m, <<<<"k", "o">>, <<"j", "a">>, <<"z", "h", "-", "h", "a", "n", "t">>, <<"z", "h", "-", "h", "a", "n", "s">>, <<"z", "h">>, <<"e", "n">>>>) # <<>>
                 THEN firstTruthy(m, <<<<"k", "o">>, <<"j", "a">>, <<"z", "h", "-", "h", "a", "n", "t">>, <<"z", "h", "-", "h", "a", "n", "s">>, <<"z", "h">>, <<"e", "n">>>>)
                 ELSE pickLegacy(entry, lang)

(***************************************************************************)
(* pickAnswer of v1.2: src/api/ask.js 785-802.                             *)
(***************************************************************************)
RECURSIVE answerMap_v12(_, _)
answerMap_v12(answers, i) ==
    IF i = 0 THEN <<>>
    ELSE LET kk == keyForm(answers[i].k)
             v  == answers[i].v
             m1 == set(answerMap_v12(answers, i - 1), kk, v)
             m2 == IF kk = <<"z", "h", "-", "t", "w">> THEN set(m1, <<"z", "h", "-", "h", "a", "n", "t">>, v) ELSE m1
         IN  IF kk = <<"z", "h", "-", "c", "n">> \/ kk = <<"z", "h">> THEN set(m2, <<"z", "h", "-", "h", "a", "n", "s">>, v) ELSE m2

pickAnswer_v12(entry, langInput) ==
    LET lang    == normalizeLangTag_v12(langInput)
        answers == IF entry.answers.t = "object" THEN entry.answers.v ELSE <<>>
        m       == answerMap_v12(answers, Len(answers))
        zh      == IF startsWith(lang, <<"z", "h">>) THEN <<<<"z", "h", "-", "h", "a", "n", "t">>, <<"z", "h", "-", "t", "w">>>> ELSE <<>>
        found   == firstTruthy(m, <<lang>> \o zh \o
                       <<<<"k", "o">>, <<"j", "a">>, <<"e", "n">>, <<"z", "h", "-", "h", "a", "n", "t">>, <<"z", "h", "-", "t", "w">>, <<"z", "h">>, <<"z", "h", "-", "h", "a", "n", "s">>>>)
    IN  IF found # <<>> THEN found ELSE firstValue(m)

(***************************************************************************)
(* pickAnswer of v2.0.1: src/unnamed/part_000 209-225.                     *)
(***************************************************************************)
pickAnswer_v2(entry, lang) ==
    LET answers       == IF entry.answers.t = "object" THEN entry.answers.v ELSE <<>>
        requestedLang == toUpperCase(lang)
        found         == firstTruthy(answers,
                             <<requestedLang, <<"K", "O">>, <<"E", "N">>, <<"J", "A">>, <<"Z", "H", "_", "T", "W">>>>)
    IN  IF found # <<>> THEN found ELSE firstValue(answers)

(***************************************************************************)
(* pickAnswer of v1-hant: src/api/ask_20250922_1438... 842-860.            *)
(***************************************************************************)
pickAnswer_hant(entry, langInput) ==
    LET lang == normalizeLangTag_hant(langInput)
        old  == IF legacy(entry.answer) # <<>> THEN legacy(entry.answer)
                ELSE IF legacy(entry.answer_ko) # <<>> THEN legacy(entry.answer_ko)
                ELSE IF legacy(entry.answer_ja) # <<>> THEN legacy(entry.answer_ja)
                ELSE IF legacy(entry.answer_zh) # <<>> THEN legacy(entry.answer_zh)
                ELSE legacy(entry.answer_en)
    IN  IF entry.answers.t # "object" THEN old
        ELSE LET m == answerMap_v12(entry.answers.v, Len(entry.answers.v))
             IN  IF lang = <<"z", "h", "-", "h", "a", "n", "t">>
                 THEN firstTruthy(m, <<<<"z", "h", "-", "h", "a", "n", "t">>, <<"z", "h", "-", "h", "a", "n", "s">>, <<"z", "h">>, <<"k", "o">>>>)
                 ELSE IF lang = <<"z", "h", "-", "h", "a", "n", "s">>
                 THEN firstTruthy(m, <<<<"z", "h", "-", "h", "a", "n", "s">>, <<"z", "h">>, <<"z", "h", "-", "h", "a", "n", "t">>, <<"k", "o">>>>)
                 ELSE IF get(m, lang) # <<>> THEN get(m, lang)
                 ELSE IF firstTruthy(m, <<<<"k", "o">>, <<"j", "a">>, <<"z", "h", "-", "h", "a", "n", "t">>, <<"z", "h", "-", "h", "a", "n", "s">>, <<"e", "n">>>>) # <<>>
                 THEN firstTruthy(m, <<<<"k", "o">>, <<"j", "a">>, <<"z", "h", "-", "h", "a", "n", "t">>, <<"z", "h", "-", "h", "a", "n", "s">>, <<"e", "n">>>>)
                 ELSE old

(***************************************************************************)
(* Language detection.  A request is a record of its method, the lang of   *)
(* its query string (qlang), the lang of its payload (blang), its          *)
(* Accept-Language header (accept), '' when absent, and its question.      *)
(* Characters of a query, besides the ASCII ones:                          *)
(*   "hangul"  a Hangul syllable            "han"  a CJK ideograph         *)
(*   "hira"    a Hiragana letter            "yen"  U+5186, a CJK ideograph *)
(*   "kata"    a Katakana letter                   the revisions take as a *)
(*                                                 hint of Japanese        *)
(***************************************************************************)
Request(method, qlang, blang, accept, question) ==
    [method |-> method, qlang |-> qlang, blang |-> blang, accept |-> accept,
     question |-> question]

hasHira(s)   == \E i \in 1..Len(s) : s[i] = "hira"
hasKata(s)   == \E i \in 1..Len(s) : s[i] = "kata"
hasHangul(s) == \E i \in 1..Len(s) : s[i] = "hangul"
hasHan(s)    == \E i \in 1..Len(s) : s[i] \in {"han", "yen"}
jaHints(s)   == \E i \in 1..Len(s) : s[i] = "yen"
\* /[a-zA-Z]/
hasLatin(s)  == \E i \in 1..Len(s) : s[i] \in DOMAIN LowerOf \cup DOMAIN UpperOf

RECURSIVE firstPart(_)
\* split(',')[0]
firstPart(s) ==
    IF s = <<>> \/ Head(s) = "," THEN <<>> ELSE <<Head(s)>> \o firstPart(Tail(s))

\* url.searchParams.get('lang') || (req.body && req.body.lang)
langParam(req) == IF req.qlang # <<>> THEN req.qlang ELSE req.blang

\* p && String(p).toLowerCase() !== 'auto'
isExplicit(p) == p # <<>> /\ toLowerCase(p) # <<"a", "u", "t", "o">>

\* detectLang of v1-strong: src/api/ask.js 145-174
detectLang(q, req) ==
    LET p      == langParam(req)
        accept == toLowerCase(req.accept)
    IN  IF isExplicit(p) THEN normalizeLangTag(p)
        ELSE IF startsWith(accept, <<"j", "a">>) THEN <<"j", "a">>
        ELSE IF startsWith(accept, <<"k", "o">>) THEN <<"k", "o">>
        ELSE IF startsWith(accept, <<"z", "h">>) THEN normalizeLangTag(firstPart(accept))
        ELSE IF hasHangul(q) THEN <<"k", "o">>
        ELSE IF hasHira(q) \/ hasKata(q) THEN <<"j", "a">>
        ELSE IF hasHan(q) THEN (IF jaHints(q) THEN <<"j", "a">> ELSE <<"z", "h", "-", "h", "a", "n", "s">>)
        ELSE <<"e", "n">>

\* detectLang of v1.2: src/api/ask.js 755-782
detectLang_v12(query, req) ==
    LET param  == langParam(req)
        header == toLowerCase(req.accept)
    IN  IF isExplicit(param) THEN normalizeLangTag_v12(param)
        ELSE IF hasHangul(query) THEN <<"k", "o">>
        ELSE IF hasHira(query) \/ hasKata(query) THEN <<"j", "a">>
        ELSE IF hasHan(query) THEN (IF jaHints(query) THEN <<"j", "a">> ELSE <<"z", "h", "-", "h", "a", "n", "t">>)
        ELSE IF header # <<>> /\ normalizeLangTag_v12(firstPart(header)) # <<>>
        THEN normalizeLangTag_v12(firstPart(header))
        ELSE IF hasLatin(query) THEN <<"e", "n">>
        ELSE <<"k", "o">>

\* detectLang of v2.0.1: src/unnamed/part_000 99-126
detectLang_v2(query, req) ==
    LET param  == langParam(req)
        header == toLowerCase(req.accept)
    IN  IF isExplicit(param) THEN normalizeLangTag_v2(param)
        ELSE IF hasLatin(query) THEN <<"e", "n">>
        ELSE IF hasHangul(query) THEN <<"k", "o">>
        ELSE IF hasHira(query) \/ hasKata(query) THEN <<"j", "a">>
        ELSE IF hasHan(query)
        THEN (IF startsWith(header, <<"j", "a">>) THEN <<"j", "a">> ELSE <<"z", "h", "_", "t", "w">>)
        ELSE IF header # <<>> THEN normalizeLangTag_v2(firstPart(header))
        ELSE <<"k", "o">>

\* detectLang of v1-hant: src/api/ask_20250922_1438... 812-839
detectLang_hant(q, req) ==
    LET p == langParam(req)
        h == toLowerCase(req.accept)
    IN  IF isExplicit(p) THEN normalizeLangTag_hant(p)
        ELSE IF startsWith(h, <<"j", "a">>) THEN <<"j", "a">>
        ELSE IF startsWith(h, <<"k", "o">>) THEN <<"k", "o">>
        ELSE IF startsWith(h, <<"z", "h", "-", "t", "w">>) \/ includes(h, <<"z", "h", "-", "h", "a", "n", "t">>) THEN <<"z", "h", "-", "h", "a", "n", "t">>
        ELSE IF startsWith(h, <<"z", "h">>) THEN <<"z", "h", "-", "h", "a", "n", "s">>
        ELSE IF startsWith(h, <<"e", "n">>) THEN <<"e", "n">>
        ELSE IF hasHangul(q) THEN <<"k", "o">>
        ELSE IF hasHira(q) \/ hasKata(q) THEN <<"j", "a">>
        ELSE IF hasHan(q) THEN <<"z", "h", "-", "h", "a", "n", "t">>
        ELSE IF hasLatin(q) THEN <<"e", "n">>
        ELSE <<"k", "o">>

\* the language the handler resolves for a request: src/api/ask.js 311
\* (GET) and 359 (POST) in v1-strong, 911 and 921 in v1.2,
\* src/unnamed/part_000 289 in v2.0.1, ask_20250922_1438... 953 and 997 in
\* v1-hant
resolveLang(r, req) ==
    CASE r = "v1-strong" ->
           IF req.method = "POST"
           THEN normalizeLangTag(IF req.blang # <<>> THEN req.blang
                                 ELSE detectLang(req.question, req))
           ELSE detectLang(req.question, req)
      [] r = "v1-hant" ->
           IF req.method = "POST"
           THEN normalizeLangTag_hant(IF req.blang # <<>> THEN req.blang
                                      ELSE detectLang_hant(req.question, req))
           ELSE detectLang_hant(req.question, req)
      [] r = "v1.2"   -> detectLang_v12(req.question, req)
      [] r = "v2.0.1" -> detectLang_v2(req.question, req)

(***************************************************************************)
(* Exceptions.  The only statements of the candidate builders that can     *)
(* throw on an entry are the iterations over its list fields: of a field   *)
(* that is a plain object (the per-language schema),                       *)
(* `for (const v of (field || []))` throws "not iterable" and              *)
(* `(field || []).forEach` throws "forEach is not a function".  An absent  *)
(* field is read as [].  getListByLang of v2.0.1 tests Array.isArray and   *)
(* never throws.                                                           *)
(***************************************************************************)
\* the outcome of a call: the value it returns, or the TypeError it throws
Returned(v) == [throws |-> FALSE, value |-> v]
TypeError == [throws |-> TRUE]

\* the field itself, without `|| []`, can be iterated
iterable_WithoutDefault(field) == field.t = "list"

\* field || [] can be iterated
iterable(field) == field.t \in {"absent", "list"}

\* src/api/ask.js 240-242, 813-815; ask_20250922_1438... 871-873
buildCandidatesThrows(faq) ==
    \/ ~iterable(faq.aliases)
    \/ ~iterable(faq.keywords_core)
    \/ ~iterable(faq.keywords_related)

\* bestMatch of v1-strong builds the candidates of every entry once the
\* query is long enough
bestMatchThrows(question) ==
    /\ Len(noSpace(trim(question))) >= MIN_QUERY_CHARS
    /\ \E f \in 1..Len(FAQS) : buildCandidatesThrows(FAQS[f])

\* some candidate of the entry ends the scan of v1.2 with an exact match
v12_returnsAt(qClean, short, cands) ==
    \E j \in 1..Len(cands) :
        LET cn == removeSpaces(cands[j].text)
        IN  cn = qClean /\ (short \/ cn # <<>>)

RECURSIVE v12_scanThrows(_, _, _)
\* the scan of v1.2 reaches, from entry f on, an entry whose candidates
\* cannot be built
v12_scanThrows(qClean, short, f) ==
    IF f > Len(FAQS) THEN FALSE
    ELSE IF buildCandidatesThrows(FAQS[f]) THEN TRUE
    ELSE IF v12_returnsAt(qClean, short, buildCandidates_v12(FAQS[f])) THEN FALSE
    ELSE v12_scanThrows(qClean, short, f + 1)

findBestMatchThrows_v12(question) ==
    LET qClean == removeSpaces(trim(question))
    IN  v12_scanThrows(qClean, Len(qClean) < MIN_QUERY_CHARS, 1)

hant_returnsAt(qn, short, cands) ==
    \E j \in 1..Len(cands) :
        LET cn == noSpace(cands[j].text)
        IN  cn = qn /\ (short \/ cn # <<>>)

RECURSIVE hant_scanThrows(_, _, _)
hant_scanThrows(qn, short, f) ==
    IF f > Len(FAQS) THEN FALSE
    ELSE IF buildCandidatesThrows(FAQS[f]) THEN TRUE
    ELSE IF hant_returnsAt(qn, short, buildCandidates(FAQS[f])) THEN FALSE
    ELSE hant_scanThrows(qn, short, f + 1)

bestMatchThrows_hant(question) ==
    LET qn == noSpace(trim(question))
    IN  hant_scanThrows(qn, Len(qn) < MIN_QUERY_CHARS, 1)

(***************************************************************************)
(* The exported handler.  A response is a record of its status and of the  *)
(* fields of its JSON payload.  The q parameter of a GET and the question  *)
(* of a POST payload are the request's question; no modelled character is  *)
(* a percent sign, so decodeURIComponent leaves the question as it is.     *)
(*   v1-strong  src/api/ask.js 275-401: POST reads req.body, no await      *)
(*   v1.2       src/api/ask.js 890-932: POST awaits readJsonBody           *)
(*   v2.0.1     src/unnamed/part_000 259-302: POST awaits readJsonBody     *)
(*   v1-hant    ask_20250922_1438... 923-1041: POST awaits readJsonBody    *)
(***************************************************************************)
\* +match.score.toFixed(3)
toFixed3(sc) == Frac((2000 * sc.n + sc.d) \div (2 * sc.d), 1000)

\* x || null of a string field
orNull(field) == IF field.t = "str" /\ field.v # <<>> THEN field.v ELSE Null

\* the candidates that the override to Japanese looks for
JA_KANJI_HINTS ==
    { <<"U+624B", "U+8377", "U+7269">>,
      <<"U+8239", "U+5185", "U+6301", "U+8FBC">>,
      <<"U+8239", "U+5167", "U+6301", "U+8FBC">> }

\* the property key of a language tag
key(lang) ==
    CASE lang = <<"k", "o">>    -> "ko"
      [] lang = <<"e", "n">>    -> "en"
      [] lang = <<"j", "a">>    -> "ja"
      [] lang = <<"z", "h", "_", "t", "w">> -> "zh_tw"
      [] lang = <<"z", "h", "_", "c", "n">> -> "zh_cn"
      [] OTHER          -> "other"

\* res.status(204).end(), and the payloads without a match
Options == [status |-> 204]
MethodNotAllowed == [status |-> 405, ok |-> FALSE]
MissingQuestion == [status |-> 400, ok |-> FALSE]
ServerError == [status |-> 500, ok |-> FALSE]

\* the status payload of a GET without q: FAQS.length and, but for v2.0.1,
\* FAQS[0]?.question || null
statusOf(r) ==
    IF r = "v2.0.1" THEN [status |-> 200, ok |-> TRUE, faqs_count |-> Len(FAQS)]
    ELSE [status |-> 200, ok |-> TRUE, faqs_count |-> Len(FAQS),
          sample |-> IF FAQS = <<>> THEN Null ELSE orNull(FAQS[1].question)]

noMatch(lang, answer) ==
    [status |-> 200, ok |-> TRUE, lang |-> lang, match |-> Null, answer |-> answer]

\* the payload of a match; question is the match.question of the payload
found(lang, m, question, answer) ==
    [status |-> 200, ok |-> TRUE, lang |-> lang,
     match |-> [id |-> m.entry, question |-> question, matched |-> m.matched,
                matched_from |-> m.from, score |-> toFixed3(m.score)],
     answer |-> answer,
     url |-> orNull(FAQS[m.entry].url),
     url_title |-> orNull(FAQS[m.entry].url_title)]

\* v1-strong: the message of a GET without a match (src/api/ask.js 315-321)
\* and of a POST without a match (368)
fallback_GET(lang) ==
    IF lang = <<"j", "a">> THEN <<"not-found-ja">>
    ELSE IF startsWith(lang, <<"z", "h">>) THEN <<"not-found-zh-hans">>
    ELSE <<"not-found-ko">>

fallback_POST == <<"call-051-ko">>

\* v1.2: src/api/ask.js 848-854
getFallbackAnswer_v12(lang) ==
    LET L == normalizeLangTag_v12(lang)
    IN  IF L = <<"j", "a">> THEN <<"call-1688-ja">>
        ELSE IF startsWith(L, <<"z", "h">>) THEN <<"call-1688-zh-hant">>
        ELSE IF L = <<"e", "n">> THEN <<"call-1688-en">>
        ELSE <<"call-1688-ko">>

\* v2.0.1: src/unnamed/part_000 200-206
getFallbackAnswer(lang) ==
    LET L == normalizeLangTag_v2(lang)
    IN  IF L = <<"j", "a">> THEN <<"call-1688-ja">>
        ELSE IF L = <<"z", "h", "_", "t", "w">> THEN <<"call-1688-zh-hant">>
        ELSE IF L = <<"e", "n">> THEN <<"call-1688-en">>
        ELSE <<"call-1688-ko">>

\* v1-hant: ask_20250922_1438... 957-961 and 1001-1005
fallback_hant(lang) ==
    IF lang = <<"j", "a">> THEN <<"call-1688-ja">>
    ELSE IF startsWith(lang, <<"z", "h">>) THEN <<"call-1688-zh-hant">>
    ELSE <<"call-1688-ko">>

\* v1.2: src/api/ask.js 855-876.  The steps of buildResponse are operators
\* of their own, each value computed once and passed on: finalLang, then
\* the payload with the answer picked for it.
payload_v12(m, finalLang) ==
    found(finalLang, m, FAQS[m.entry].question,
          pickAnswer_v12(FAQS[m.entry], finalLang))

finalLang_v12(m, L) ==
    IF startsWith(L, <<"z", "h">>) /\ m.matched \in JA_KANJI_HINTS THEN <<"j", "a">> ELSE L

buildResponse_v12(m, lang) ==
    payload_v12(m, finalLang_v12(m, normalizeLangTag_v12(lang)))

\* v2.0.1: src/unnamed/part_000 227-245
\* getTextByLang(match.entry.question, lang) || match.entry.question || ''
matchQuestion(e, t) ==
    IF t # <<>> THEN Str(t)
    ELSE IF e.question.t = "absent" \/ e.question = Str(<<>>) THEN Str(<<>>)
    ELSE e.question

buildResponse(m, lang) ==
    found(lang, m,
          matchQuestion(FAQS[m.entry], getTextByLang(FAQS[m.entry].question, key(lang))),
          pickAnswer_v2(FAQS[m.entry], lang))

\* the question kept in a variable of the module, which the latest request
\* has set
questionOf_SharedVariable(req) ==
    IF inflight = <<>> THEN req.question
    ELSE trim(inflight[Len(inflight)].req.question)

\* the question the handler searches for: a POST trims it
questionOf(req) ==
    IF req.method = "POST" THEN trim(req.question) ELSE req.question

\* the handler's third argument: src/api/ask.js 312
baseT == DEFAULT_THRESHOLD

\* the handler's try block after the method and the question are known.
\* Each of its constants (question, lang, match) is computed once and passed
\* on to the operator of the statements that follow it.
\* v1-strong: src/api/ask.js 309-343 and 352-393
reply_strong(req, question, lang, m) ==
    IF bestMatchThrows(question) THEN ServerError
    ELSE IF m.null
    THEN noMatch(lang, IF req.method = "GET" THEN fallback_GET(lang)
                       ELSE fallback_POST)
    ELSE found(lang, m, FAQS[m.entry].question, pickAnswer(FAQS[m.entry], lang))

search_strong(req, question, lang) ==
    reply_strong(req, question, lang, bestMatch(question, lang, baseT))

answer_strong(req) ==
    search_strong(req, questionOf(req), resolveLang("v1-strong", req))

\* v1.2: src/api/ask.js 909-925
reply_v12(question, lang, m) ==
    IF findBestMatchThrows_v12(question) THEN ServerError
    ELSE IF m.null THEN noMatch(lang, getFallbackAnswer_v12(lang))
    ELSE buildResponse_v12(m, lang)

search_v12(question, lang) ==
    reply_v12(question, lang, findBestMatch_v12(question))

answer_v12(req) == search_v12(questionOf(req), resolveLang("v1.2", req))

\* v2.0.1: src/unnamed/part_000 289-296
reply_v2(lang, m) ==
    IF m.null THEN noMatch(lang, getFallbackAnswer(lang))
    ELSE buildResponse(m, lang)

search_v2(question, lang) ==
    reply_v2(lang, findBestMatch(question, key(lang)))

answer_v2(req) == search_v2(questionOf(req), resolveLang("v2.0.1", req))

\* v1-hant: ask_20250922_1438... 952-985 and 993-1034
payload_hant(m, final) ==
    found(final, m, FAQS[m.entry].question,
          pickAnswer_hant(FAQS[m.entry], final))

reply_hant(question, lang, m) ==
    IF bestMatchThrows_hant(question) THEN ServerError
    ELSE IF m.null THEN noMatch(lang, fallback_hant(lang))
    ELSE payload_hant(m, IF startsWith(lang, <<"z", "h">>) /\ m.matched \in JA_KANJI_HINTS
                         THEN <<"j", "a">> ELSE lang)

search_hant(question, lang) ==
    reply_hant(question, lang, bestMatch_hant(question, lang, baseT))

answer_hant(req) == search_hant(questionOf(req), resolveLang("v1-hant", req))

\* the response of revision r's handler to a request
respond(r, req) ==
    IF req.method = "OPTIONS" THEN Options
    ELSE IF req.method \notin {"GET", "POST"} THEN MethodNotAllowed
    ELSE IF req.method = "GET" /\ req.question = <<>> THEN statusOf(r)
    ELSE IF req.method = "POST" /\ trim(req.question) = <<>> THEN MissingQuestion
    ELSE CASE r = "v1-strong" -> answer_strong(req)
           [] r = "v1.2"      -> answer_v12(req)
           [] r = "v2.0.1"    -> answer_v2(req)
           [] r = "v1-hant"   -> answer_hant(req)

\* whether the handler of revision r is suspended before it responds: at
\* `const body = await readJsonBody(req)` of a POST
awaits(r, req) == req.method = "POST" /\ r # "v1-strong"

(***************************************************************************)
(* What every specification leaves alone: the module-level state, set once *)
(* when the module is loaded.                                              *)
(***************************************************************************)
loaded == <<rev, FAQS, HARD_MIN, DEFAULT_THRESHOLD, MIN_QUERY_CHARS>>

NoCall == [fn |-> "none"]

DefaultConfig ==
    /\ HARD_MIN = Hundredths(30)
    /\ DEFAULT_THRESHOLD = Hundredths(30)
    /\ MIN_QUERY_CHARS = 2

(***************************************************************************)
(* SpecNorm: the text normalizers applied to arbitrary strings, and to     *)
(* their own results.                                                      *)
(***************************************************************************)
NormChars == {"p", "P", "J", "j", "caron", "jcaron", "fwP", "sp", "zw"}
NormStrings == StringsOver(NormChars, MaxNormLen)
NormFns == {"clean", "noSpace", "cleanText", "removeSpaces"}
\* a fresh string, or the result of the previous normalization
NormArgs == IF call.fn = "none" THEN NormStrings
            ELSE IF call.fn \in NormFns THEN {call.ret} ELSE {}

CallClean ==
    /\ \E x \in NormArgs :
        call' = [fn |-> "clean", arg |-> x, ret |-> clean(x)]
    /\ UNCHANGED <<loaded, inflight>>

CallNoSpace ==
    /\ \E x \in NormArgs :
        call' = [fn |-> "noSpace", arg |-> x, ret |-> noSpace(x)]
    /\ UNCHANGED <<loaded, inflight>>

CallCleanText ==
    /\ \E x \in NormArgs :
        call' = [fn |-> "cleanText", arg |-> x, ret |-> cleanText(x)]
    /\ UNCHANGED <<loaded, inflight>>

CallRemoveSpaces ==
    /\ \E x \in NormArgs :
        call' = [fn |-> "removeSpaces", arg |-> x, ret |-> removeSpaces(x)]
    /\ UNCHANGED <<loaded, inflight>>

InitNorm ==
    /\ rev = "none"
    /\ FAQS = <<>>
    /\ DefaultConfig
    /\ call = NoCall
    /\ inflight = <<>>

NextNorm ==
    \/ CallClean
    \/ CallNoSpace
    \/ CallCleanText
    \/ CallRemoveSpaces

SpecNorm == InitNorm /\ [][NextNorm]_vars

(***************************************************************************)
(* SpecScore: the two scorers applied to every pair of strings.            *)
(***************************************************************************)
ScoreChars == {"p", "q", "P", "sp"}
ScoreStrings == StringsOver(ScoreChars, MaxScoreLen)

CallScore ==
    /\ call.fn = "none"
    /\ \E q \in ScoreStrings, c \in ScoreStrings :
        call' = [fn |-> "score", q |-> q, c |-> c, ret |-> score(q, c)]
    /\ UNCHANGED <<loaded, inflight>>

CallCalculateScore ==
    /\ call.fn = "none"
    /\ \E q \in ScoreStrings, c \in ScoreStrings :
        call' = [fn |-> "calculateScore", q |-> q, c |-> c,
                 ret |-> calculateScore(q, c)]
    /\ UNCHANGED <<loaded, inflight>>

InitScore ==
    /\ rev = "none"
    /\ FAQS = <<>>
    /\ DefaultConfig
    /\ call = NoCall
    /\ inflight = <<>>

NextScore ==
    \/ CallScore
    \/ CallCalculateScore

SpecScore == InitScore /\ [][NextScore]_vars

(***************************************************************************)
(* SpecThreshold: the thresholds of v1-strong under every configuration    *)
(* of FAQ_THRESHOLD and FAQ_HARD_MIN, for queries of every length up to    *)
(* MaxThresholdLen.                                                        *)
(***************************************************************************)
\* values of FAQ_THRESHOLD / FAQ_HARD_MIN / baseThreshold, in hundredths:
\* the documented defaults 0.30 and 0.08, and 0 and 0.50
ThresholdValues == {Hundredths(0), Hundredths(8), Hundredths(30), Hundredths(50)}

\* a query of n letters, and the same with a space after its first letter
Letters(n) == [i \in 1..n |-> "p"]
Spaced(n) == IF n = 0 THEN <<"sp">> ELSE <<"p", "sp">> \o Letters(n - 1)
ThresholdQueries == {Letters(n) : n \in 0..MaxThresholdLen}
                        \cup {Spaced(n) : n \in 0..MaxThresholdLen}

CallDynamicThreshold ==
    /\ call.fn = "none"
    /\ \E q \in ThresholdQueries :
        call' = [fn |-> "dynamicThreshold", question |-> q,
                 ret |-> dynamicThreshold(q)]
    /\ UNCHANGED <<loaded, inflight>>

CallThreshold ==
    /\ call.fn = "none"
    /\ \E q \in ThresholdQueries, baseThreshold \in ThresholdValues :
        call' = [fn |-> "threshold", question |-> q,
                 baseThreshold |-> baseThreshold,
                 ret |-> effectiveThreshold(q, baseThreshold)]
    /\ UNCHANGED <<loaded, inflight>>

InitThreshold ==
    /\ rev = "v1-strong"
    /\ FAQS = <<>>
    /\ HARD_MIN \in ThresholdValues
    /\ DEFAULT_THRESHOLD \in ThresholdValues
    /\ MIN_QUERY_CHARS = 2
    /\ call = NoCall
    /\ inflight = <<>>

NextThreshold ==
    \/ CallDynamicThreshold
    \/ CallThreshold

SpecThreshold == InitThreshold /\ [][NextThreshold]_vars

(***************************************************************************)
(* Specification of the match selectors.  A revision is loaded with a      *)
(* corpus and its environment's FAQ_THRESHOLD; each call of its selector   *)
(* is one step.                                                            *)
(***************************************************************************)
MaxEntries == 2
MaxQueryLen == 2

Revisions == {"v1-strong", "v1.2", "v2.0.1", "v1-hant"}

\* entries of the flat schema
FlatEntries ==
    { Entry(Str(<<"p", "q">>), Absent, Absent, Absent),
      Entry(Str(<<"q", "p">>), Absent, Absent, Absent),
      Entry(Str(<<"p">>), List(<< <<"p", "q">> >>), Absent, Absent),
      Entry(Absent, List(<< <<"sp">> >>), Absent, Absent),
      Entry(Absent, Absent, List(<< <<"zw">> >>), Absent),
      Entry(Str(<<"q", "q">>), List(<< <<"p", "p">> >>), Absent, Absent),
      Entry(Str(<<"P", "sp", "q">>), Absent, Absent, List(<< <<"p", "q">> >>)),
      Entry(Absent, Absent, Absent, Absent),
      Entry(Absent, List(<< <<"p", "q", "q">>, <<"p", "q">>, <<"p", "q">> >>),
            Absent, Absent),
      Entry(Str(<<>>), List(<< <<>>, <<"q">> >>), List(<< <<"p", "q", "p">> >>),
            Absent) }

\* entries of the per-language schema
MapEntries ==
    { Entry(Map([ko |-> <<"p", "q">>, en |-> <<"q", "p">>]),
            Map([ko |-> << <<"p">> >>, en |-> << <<"q">>, <<"sp", "q", "p", "sp">> >>]),
            Absent, Absent),
      Entry(Map([ja |-> <<"p", "q">>]), Map([ko |-> << <<"q", "q">> >>]),
            List(<< <<"q", "p">> >>), Absent) }

\* the schemas a revision reads
EntriesOf(r) == IF r = "v2.0.1" THEN FlatEntries \cup MapEntries ELSE FlatEntries

Corpora(r) == UNION { [1..n -> EntriesOf(r)] : n \in 0..MaxEntries }

\* FAQ_THRESHOLD unset (0.30), or set to the 0.08 of the first revision
MatchThresholds == {Hundredths(30), Hundredths(8)}

MatchQueries ==
    StringsOver({"p", "q"}, MaxQueryLen)
        \cup { <<"sp">>, <<"zw">>, <<"P", "sp", "q">>, <<"sp", "p">> }

MatchLangs == {"ko", "en"}


CallBestMatch ==
    /\ rev = "v1-strong"
    /\ call.fn = "none"
    /\ \E question \in MatchQueries :
         call' = [fn |-> "bestMatch", question |-> question, lang |-> "ko",
                  baseThreshold |-> baseT,
                  ret |-> bestMatch(question, "ko", baseT)]
    /\ UNCHANGED <<loaded, inflight>>

CallFindBestMatch_v12 ==
    /\ rev = "v1.2"
    /\ call.fn = "none"
    /\ \E question \in MatchQueries :
         call' = [fn |-> "findBestMatch", question |-> question, lang |-> "ko",
                  baseThreshold |-> DEFAULT_THRESHOLD,
                  ret |-> findBestMatch_v12(question)]
    /\ UNCHANGED <<loaded, inflight>>

CallFindBestMatch ==
    /\ rev = "v2.0.1"
    /\ call.fn = "none"
    /\ \E question \in MatchQueries, lang \in MatchLangs :
         call' = [fn |-> "findBestMatch", question |-> question, lang |-> lang,
                  baseThreshold |-> DEFAULT_THRESHOLD,
                  ret |-> findBestMatch(question, lang)]
    /\ UNCHANGED <<loaded, inflight>>

CallBestMatch_hant ==
    /\ rev = "v1-hant"
    /\ call.fn = "none"
    /\ \E question \in MatchQueries :
         call' = [fn |-> "bestMatch", question |-> question, lang |-> "ko",
                  baseThreshold |-> baseT,
                  ret |-> bestMatch_hant(question, "ko", baseT)]
    /\ UNCHANGED <<loaded, inflight>>

InitMatch ==
    /\ rev \in Revisions
    /\ FAQS \in Corpora(rev)
    /\ HARD_MIN = Hundredths(30)
    /\ DEFAULT_THRESHOLD \in MatchThresholds
    /\ MIN_QUERY_CHARS = 2
    /\ call = NoCall
    /\ inflight = <<>>

NextMatch ==
    \/ CallBestMatch
    \/ CallFindBestMatch_v12
    \/ CallFindBestMatch
    \/ CallBestMatch_hant

SpecMatch == InitMatch /\ [][NextMatch]_vars

(***************************************************************************)
(* Specification of the match selectors over the empty corpus, under any   *)
(* FAQ_THRESHOLD the environment may hold, the accept-everything settings  *)
(* 0 and -1 included.                                                      *)
(***************************************************************************)
EmptyCorpusThresholds ==
    {Hundredths(30), Hundredths(8), Hundredths(0), Hundredths(-100)}

InitEmptyCorpus ==
    /\ rev \in Revisions
    /\ FAQS = <<>>
    /\ HARD_MIN = Hundredths(30)
    /\ DEFAULT_THRESHOLD \in EmptyCorpusThresholds
    /\ MIN_QUERY_CHARS = 2
    /\ call = NoCall
    /\ inflight = <<>>

SpecEmptyCorpus == InitEmptyCorpus /\ [][NextMatch]_vars

(***************************************************************************)
(* Specification of the match selectors over corpora of entries that hold  *)
(* exact, containing, fuzzy and tied candidates for the queries, in every  *)
(* order.                                                                  *)
(***************************************************************************)
MaxSelectEntries == 2

FlatSelectEntries ==
    { Entry(Str(<<"p", "q">>), Absent, Absent, Absent),
      Entry(Str(<<"q", "p">>), Absent, Absent, Absent),
      Entry(Absent, List(<< <<"p", "q", "q">>, <<"p", "q">>, <<"p", "q">> >>), Absent, Absent),
      Entry(Str(<<"P", "sp", "q">>), Absent, Absent, List(<< <<"p", "q">> >>)),
      Entry(Str(<<"q", "q">>), List(<< <<"p", "p">> >>), Absent, Absent),
      Entry(Str(<<>>), List(<< <<>>, <<"q">> >>), List(<< <<"p", "q", "p">> >>), Absent) }

SelectEntries(r) ==
    IF r = "v2.0.1"
    THEN FlatSelectEntries \cup
         { Entry(Map([ko |-> <<"p", "q">>, en |-> <<"q", "p">>]),
                 Map([ko |-> << <<"p">> >>, en |-> << <<"q">>, <<"sp">> \o <<"q", "p">> \o <<"sp">> >>]),
                 Absent, Absent) }
    ELSE FlatSelectEntries

SelectCorpora(r) == UNION { [1..n -> SelectEntries(r)] : n \in 0..MaxSelectEntries }

InitSelect ==
    /\ rev \in Revisions
    /\ FAQS \in SelectCorpora(rev)
    /\ HARD_MIN = Hundredths(30)
    /\ DEFAULT_THRESHOLD \in MatchThresholds
    /\ MIN_QUERY_CHARS = 2
    /\ call = NoCall
    /\ inflight = <<>>

SpecSelect == InitSelect /\ [][NextMatch]_vars

(***************************************************************************)
(* Specification of answer selection: each call of the loaded revision's   *)
(* pickAnswer, on an entry and a language tag, is one step.                *)
(***************************************************************************)
MaxAnswers == 2

\* the keys an answers object is written with: v2.0.1 reads upper-case keys
AnswerKeysOf(r) ==
    IF r = "v2.0.1"
    THEN {<<"K", "O">>, <<"E", "N">>, <<"J", "A">>, <<"Z", "H", "_", "T", "W">>, <<"Z", "H", "_", "C", "N">>, <<"F", "R">>, <<"k", "o">>}
    ELSE {<<"k", "o">>, <<"e", "n">>, <<"j", "a">>, <<"z", "h", "_", "t", "w">>, <<"z", "h", "_", "c", "n">>, <<"f", "r">>, <<"z", "h">>}

\* the text stored under key k, when not empty
TextOf(k) == <<"text">> \o k

\* answers objects of n properties with distinct keys
AnswerObjects(r, n) ==
    { props \in [1..n -> [k : AnswerKeysOf(r), v : {<<>>} \cup {TextOf(k) : k \in AnswerKeysOf(r)}]] :
        /\ \A i \in 1..n : props[i].v \in {<<>>, TextOf(props[i].k)}
        /\ \A i, j \in 1..n : i # j => props[i].k # props[j].k }

LegacyFields ==
    { <<Absent, Absent, Absent, Absent, Absent>>,
      <<Str(<<"a", "n", "s", "w", "e", "r">>), Absent, Absent, Absent, Absent>>,
      <<Absent, Absent, Absent, Absent, Str(<<"a", "n", "s", "w", "e", "r", "_", "e", "n">>)>>,
      <<Absent, Str(<<>>), Str(<<"a", "n", "s", "w", "e", "r", "_", "j", "a">>), Str(<<"a", "n", "s", "w", "e", "r", "_", "z", "h">>), Absent>> }

AnswerEntries(r) ==
    { AnswerEntry(a, l[1], l[2], l[3], l[4], l[5]) :
        a \in {Absent} \cup { Obj(p) : p \in UNION { AnswerObjects(r, n) : n \in 0..MaxAnswers } },
        l \in LegacyFields }

AnswerLangs == {<<"k", "o">>, <<"e", "n">>, <<"j", "a">>, <<"z", "h", "-", "h", "a", "n", "t">>, <<"z", "h", "-", "h", "a", "n", "s">>, <<"z", "h", "_", "t", "w">>, <<"f", "r">>, <<>>}

\* the loaded revision's pickAnswer
pickAnswerOf(r, entry, lang) ==
    CASE r = "v1-strong" -> pickAnswer(entry, lang)
      [] r = "v1.2"      -> pickAnswer_v12(entry, lang)
      [] r = "v2.0.1"    -> pickAnswer_v2(entry, lang)
      [] r = "v1-hant"   -> pickAnswer_hant(entry, lang)

CallPickAnswer ==
    /\ call.fn = "none"
    /\ \E entry \in AnswerEntries(rev), lang \in AnswerLangs :
         call' = [fn |-> "pickAnswer", entry |-> entry, lang |-> lang,
                  ret |-> pickAnswerOf(rev, entry, lang)]
    /\ UNCHANGED <<loaded, inflight>>

InitAnswer ==
    /\ rev \in Revisions
    /\ FAQS = <<>>
    /\ DefaultConfig
    /\ call = NoCall
    /\ inflight = <<>>

NextAnswer == CallPickAnswer

SpecAnswer == InitAnswer /\ [][NextAnswer]_vars

(***************************************************************************)
(* Specification of language resolution: each call of the loaded           *)
(* revision's normalizeLangTag on a raw tag, of its detectLang on a query  *)
(* and a request, and each resolution of a request's language by its       *)
(* handler, is one step.                                                   *)
(***************************************************************************)
\* raw tags of a lang parameter or a payload field ('' when absent)
LangParams ==
    {<<>>, <<"a", "u", "t", "o">>, <<"A", "U", "T", "O">>, <<"k", "o">>, <<"e", "n", "-", "U", "S">>, <<"J", "A">>, <<"z", "h", "_", "T", "W">>, <<"z", "h", "-", "C", "N">>, <<"z", "h">>, <<"f", "r">>,
     <<"sp", "k", "o">>}

\* values of the Accept-Language header ('' when absent)
AcceptHeaders ==
    {<<>>, <<"j", "a", ",", "e", "n", ";", "q", "=", "0", ".", "8">>, <<"k", "o", "-", "K", "R", ",", "k", "o">>, <<"z", "h", "-", "T", "W", ",", "z", "h", ";", "q", "=", "0", ".", "9">>, <<"z", "h", "-", "C", "N">>, <<"e", "n", "-", "U", "S", ",", "e", "n">>, <<"f", "r", "-", "F", "R", ",", "f", "r">>}

\* queries by script
LangQueries ==
    { <<"hangul">>, <<"hira">>, <<"kata", "han">>, <<"han">>, <<"han", "yen">>,
      <<"a", "b">>, <<"1", "2">>, <<"a", "hangul">>, <<"hira", "hangul">>,
      <<"A", "han">> }

LangRequests ==
    { Request(method, qlang, blang, accept, question) :
        method \in {"GET", "POST"}, qlang \in LangParams,
        blang \in {<<>>, <<"a", "u", "t", "o">>, <<"j", "a">>, <<"f", "r">>}, accept \in AcceptHeaders,
        question \in LangQueries }

normalizeLangTagOf(r, tag) ==
    CASE r = "v1-strong" -> normalizeLangTag(tag)
      [] r = "v1.2"      -> normalizeLangTag_v12(tag)
      [] r = "v2.0.1"    -> normalizeLangTag_v2(tag)
      [] r = "v1-hant"   -> normalizeLangTag_hant(tag)

detectLangOf(r, q, req) ==
    CASE r = "v1-strong" -> detectLang(q, req)
      [] r = "v1.2"      -> detectLang_v12(q, req)
      [] r = "v2.0.1"    -> detectLang_v2(q, req)
      [] r = "v1-hant"   -> detectLang_hant(q, req)

CallNormalizeLangTag ==
    /\ call.fn = "none"
    /\ \E tag \in LangParams \cup AcceptHeaders :
         call' = [fn |-> "normalizeLangTag", tag |-> tag,
                  ret |-> normalizeLangTagOf(rev, tag)]
    /\ UNCHANGED <<loaded, inflight>>

CallDetectLang ==
    /\ call.fn = "none"
    /\ \E req \in LangRequests :
         call' = [fn |-> "detectLang", req |-> req,
                  ret |-> detectLangOf(rev, req.question, req)]
    /\ UNCHANGED <<loaded, inflight>>

\* the handler serves a request; a GET carries no payload
ResolveLang ==
    /\ call.fn = "none"
    /\ \E req \in LangRequests :
         /\ req.method = "GET" => req.blang = <<>>
         /\ call' = [fn |-> "handler", req |-> req, ret |-> resolveLang(rev, req)]
    /\ UNCHANGED <<loaded, inflight>>

InitLang ==
    /\ rev \in Revisions
    /\ FAQS = <<>>
    /\ DefaultConfig
    /\ call = NoCall
    /\ inflight = <<>>

NextLang ==
    \/ CallNormalizeLangTag
    \/ CallDetectLang
    \/ ResolveLang

SpecLang == InitLang /\ [][NextLang]_vars

(***************************************************************************)
(* Specification of the exported handler serving requests.  A handler      *)
(* that starts runs without interruption up to its response or up to its   *)
(* await of readJsonBody; a suspended handler resumes after any number of  *)
(* other handlers have started, resumed or responded.                      *)
(***************************************************************************)
MaxInflight == 3

\* an entry of the corpus with every field the handler reads
Faq(question, aliases, answers, url, url_title) ==
    [question |-> question, aliases |-> aliases, keywords_core |-> Absent,
     keywords_related |-> Absent, answers |-> answers, answer |-> Absent,
     answer_ko |-> Absent, answer_ja |-> Absent, answer_zh |-> Absent,
     answer_en |-> Absent, url |-> url, url_title |-> url_title]

\* the keys of the answers as revision r reads them
K(r, k) == IF r = "v2.0.1" THEN toUpperCase(k) ELSE k

ServeCorpora(r) ==
    LET e1 == Faq(Str(<<"a", "b">>), Absent,
                  Obj(<<[k |-> K(r, <<"k", "o">>), v |-> TextOf(<<"k", "o">>)],
                        [k |-> K(r, <<"e", "n">>), v |-> TextOf(<<"e", "n">>)]>>),
                  Str(<<"u">>), Absent)
        e2 == Faq(Str(<<"hangul", "hangul">>), List(<< <<"han", "han">>, <<"a", "b">> >>),
                  Obj(<<[k |-> K(r, <<"j", "a">>), v |-> TextOf(<<"j", "a">>)]>>), Absent, Absent)
        e3 == Faq(Absent, Map([ko |-> << <<"hangul", "hangul">> >>, en |-> << <<"a", "b">> >>]),
                  Absent, Absent, Str(<<"t">>))
    IN  { <<>>, <<e1, e2>>, <<e3, e1>> }

ServeRequests ==
    { Request("OPTIONS", <<>>, <<>>, <<>>, <<>>),
      Request("DELETE", <<>>, <<>>, <<>>, <<"a", "b">>),
      Request("GET", <<>>, <<>>, <<>>, <<>>),
      Request("GET", <<>>, <<>>, <<>>, <<"a", "b">>),
      Request("GET", <<"j", "a">>, <<>>, <<>>, <<"hangul", "hangul">>),
      Request("POST", <<>>, <<>>, <<"j", "a", ",", "e", "n", ";", "q", "=", "0", ".", "8">>, <<"sp", "a", "b">>),
      Request("POST", <<>>, <<"a", "u", "t", "o">>, <<>>, <<"han", "han">>),
      Request("POST", <<>>, <<"j", "a">>, <<>>, <<"sp">>) }

\* how many handlers have responded; a response is the nth of the process
responded == Cardinality({i \in 1..Len(inflight) : inflight[i].pc = "done"})

\* module.exports(req, res) is called
Handler ==
    /\ Len(inflight) < MaxInflight
    /\ \E req \in ServeRequests :
         inflight' = Append(inflight,
             IF awaits(rev, req)
             THEN [req |-> req, pc |-> "readJsonBody", res |-> Null, nth |-> 0]
             ELSE [req |-> req, pc |-> "done", res |-> respond(rev, req),
                   nth |-> responded + 1])
    /\ UNCHANGED <<loaded, call>>

\* readJsonBody resolves and the handler runs to its response
ReadJsonBody ==
    /\ \E i \in 1..Len(inflight) :
         /\ inflight[i].pc = "readJsonBody"
         /\ inflight' = [inflight EXCEPT ![i] =
                [req |-> inflight[i].req, pc |-> "done",
                 res |-> respond(rev, inflight[i].req), nth |-> responded + 1]]
    /\ UNCHANGED <<loaded, call>>

InitServe ==
    /\ rev \in Revisions
    /\ FAQS \in ServeCorpora(rev)
    /\ DefaultConfig
    /\ call = NoCall
    /\ inflight = <<>>

NextServe ==
    \/ Handler
    \/ ReadJsonBody

SpecServe == InitServe /\ [][NextServe]_vars

(***************************************************************************)
(* Specification of the calls on one entry: the corpus holds one entry,    *)
(* with any subset of its optional fields missing, and each call of the    *)
(* loaded revision's buildCandidates, match selector and pickAnswer on it  *)
(* is one step.                                                            *)
(***************************************************************************)
\* the optional fields of an entry
OptionalFields ==
    {"question", "aliases", "keywords_core", "keywords_related", "answers",
     "url", "url_title"}

\* an entry of the flat schema with every optional field
FullEntry(r) ==
    [question |-> Str(<<"a", "b">>), aliases |-> List(<< <<"b", "a">>, <<>> >>),
     keywords_core |-> List(<< <<"a", "b", "c">> >>), keywords_related |-> List(<< <<"b">> >>),
     answers |-> Obj(<<[k |-> K(r, <<"k", "o">>), v |-> TextOf(<<"k", "o">>)]>>),
     answer |-> Absent, answer_ko |-> Absent, answer_ja |-> Absent,
     answer_zh |-> Absent, answer_en |-> Absent,
     url |-> Str(<<"u">>), url_title |-> Str(<<"t">>)]

\* the entry without the fields of `missing`
Lacking(e, missing) ==
    [f \in DOMAIN e |-> IF f \in missing THEN Absent ELSE e[f]]

\* entries of the per-language schema, which the flat revisions cannot
\* iterate
PerLanguageEntries(r) ==
    { [FullEntry(r) EXCEPT !.aliases = Map([ko |-> << <<"a", "b">> >>, en |-> << <<"b", "a">> >>])],
      [Lacking(FullEntry(r), {"question", "answers"})
          EXCEPT !.keywords_related = Map([ko |-> << <<"a", "b">> >>])] }

FieldEntries(r) ==
    { Lacking(FullEntry(r), missing) : missing \in SUBSET OptionalFields }
        \cup PerLanguageEntries(r)

FieldQueries == {<<>>, <<"a">>, <<"a", "b">>, <<"z", "z">>}
FieldLangs == {<<>>, <<"k", "o">>, <<"e", "n">>}

\* the outcome of the loaded revision's buildCandidates on an entry
buildCandidatesOf(r, faq, lang) ==
    CASE r = "v1-strong" -> IF buildCandidatesThrows(faq) THEN TypeError
                            ELSE Returned(buildCandidates(faq))
      [] r = "v1.2"      -> IF buildCandidatesThrows(faq) THEN TypeError
                            ELSE Returned(buildCandidates_v12(faq))
      [] r = "v2.0.1"    -> Returned(buildCandidates_v2(faq, key(lang)))
      [] r = "v1-hant"   -> IF buildCandidatesThrows(faq) THEN TypeError
                            ELSE Returned(buildCandidates(faq))

\* the outcome of the loaded revision's match selector on the corpus
selectOf(r, question, lang) ==
    CASE r = "v1-strong" -> IF bestMatchThrows(question) THEN TypeError
                            ELSE Returned(bestMatch(question, lang, baseT))
      [] r = "v1.2"      -> IF findBestMatchThrows_v12(question) THEN TypeError
                            ELSE Returned(findBestMatch_v12(question))
      [] r = "v2.0.1"    -> Returned(findBestMatch(question, key(lang)))
      [] r = "v1-hant"   -> IF bestMatchThrows_hant(question) THEN TypeError
                            ELSE Returned(bestMatch_hant(question, lang, baseT))

CallBuildCandidatesOnEntry ==
    /\ call.fn = "none"
    /\ \E lang \in FieldLangs :
         call' = [fn |-> "buildCandidates", entry |-> FAQS[1], lang |-> lang,
                  ret |-> buildCandidatesOf(rev, FAQS[1], lang)]
    /\ UNCHANGED <<loaded, inflight>>

CallSelectorOnEntry ==
    /\ call.fn = "none"
    /\ \E question \in FieldQueries, lang \in FieldLangs :
         call' = [fn |-> "select", entry |-> FAQS[1], question |-> question,
                  lang |-> lang, ret |-> selectOf(rev, question, lang)]
    /\ UNCHANGED <<loaded, inflight>>

CallPickAnswerOnEntry ==
    /\ call.fn = "none"
    /\ \E lang \in FieldLangs :
         call' = [fn |-> "pickAnswer", entry |-> FAQS[1], lang |-> lang,
                  ret |-> Returned(pickAnswerOf(rev, FAQS[1], lang))]
    /\ UNCHANGED <<loaded, inflight>>

InitFields ==
    /\ rev \in Revisions
    /\ FAQS \in { <<e>> : e \in FieldEntries(rev) }
    /\ DefaultConfig
    /\ call = NoCall
    /\ inflight = <<>>

NextFields ==
    \/ CallBuildCandidatesOnEntry
    \/ CallSelectorOnEntry
    \/ CallPickAnswerOnEntry

SpecFields == InitFields /\ [][NextFields]_vars

(***************************************************************************)
(* Specification of the scoring tiers: each call of score and of           *)
(* calculateScore on a query and a candidate, among them strings whose     *)
(* normal form a second normalization changes, is one step.                *)
(***************************************************************************)
TierStrings ==
    StringsOver({"p", "q"}, 2) \cup
    { <<"sp">>, <<"p", "sp", "q">>, <<"P", "q">>, <<"p", "q", "p">>, <<"p", "p", "q">>, <<"q", "p", "q">>, <<"p", "q", "q">>,
      <<"J", "caron", "p">>, <<"q", "jcaron", "p">>, <<"j", "caron", "p">>,
      <<"J", "caron">>, <<"p", "J", "caron">>, <<"jcaron", "q">>, <<"zw", "fwP">> }

CallScoreOnPair ==
    /\ call.fn = "none"
    /\ \E q \in TierStrings, c \in TierStrings :
        call' = [fn |-> "score", q |-> q, c |-> c, ret |-> score(q, c)]
    /\ UNCHANGED <<loaded, inflight>>

CallCalculateScoreOnPair ==
    /\ call.fn = "none"
    /\ \E q \in TierStrings, c \in TierStrings :
        call' = [fn |-> "calculateScore", q |-> q, c |-> c,
                 ret |-> calculateScore(q, c)]
    /\ UNCHANGED <<loaded, inflight>>

InitTiers ==
    /\ rev = "none"
    /\ FAQS = <<>>
    /\ DefaultConfig
    /\ call = NoCall
    /\ inflight = <<>>

NextTiers ==
    \/ CallScoreOnPair
    \/ CallCalculateScoreOnPair

SpecTiers == InitTiers /\ [][NextTiers]_vars

(***************************************************************************)
(* Specification of the tag normalizer: normalizeLangTag of each revision  *)
(* applied to a raw tag, and then again to its own result.                 *)
(***************************************************************************)
\* Chinese tags: zh in three letter cases, alone or with a separator (none
\* for the abbreviated aliases), and a region or script subtag
ChineseTags ==
    { head \o sep \o subtag :
        head \in {<<"z", "h">>, <<"Z", "H">>, <<"Z", "h">>},
        sep \in {<<>>, <<"-">>, <<"_">>},
        subtag \in {<<>>, <<"t", "w">>, <<"T", "W">>, <<"h", "k">>, <<"m", "o">>, <<"H", "a", "n", "t">>, <<"h", "a", "n", "s">>, <<"c", "n">>, <<"s", "g">>, <<"x", "x">>} }

\* other tags: empty, the basic languages, an unknown language, tags with
\* two separators, surrounding spaces, a header value
OtherTags ==
    { <<>>, <<"k", "o">>, <<"k", "o", "-", "K", "R">>, <<"e", "n", "_", "U", "S">>, <<"J", "A">>, <<"f", "r">>, <<"f", "r", "_", "B", "E">>, <<"f", "r", "_", "b", "e", "_", "x">>, <<"x", "_", "y", "_", "z">>, <<"k", "o", "_", "k", "r", "_", "x">>, <<"z", "h", "_", "h", "a", "n", "t", "_", "t", "w">>, <<"z", "h", "_", "c", "n", "_", "x">>, <<"z", "h", "-", "c", "n", "_", "x">>,
      <<"sp">> \o <<"z", "h", "-", "t", "w">> \o <<"sp">>, <<"sp">> \o <<"f", "r", "_", "x">>, <<"z", "h", "o">>, <<"z", "h", "-", "T", "W", ",", "z", "h", ";", "q", "=", "0", ".", "9">> }

RawTags == ChineseTags \cup OtherTags

CallNormalizeLangTagOnTag ==
    /\ call.fn = "none"
    /\ \E tag \in RawTags :
         call' = [fn |-> "normalizeLangTag", nth |-> 1, tag |-> tag,
                  ret |-> normalizeLangTagOf(rev, tag)]
    /\ UNCHANGED <<loaded, inflight>>

\* normalizeLangTag(normalizeLangTag(tag)), as pickAnswer and
\* getFallbackAnswer do with the language the handler has resolved
CallNormalizeLangTagAgain ==
    /\ call.fn = "normalizeLangTag"
    /\ call.nth = 1
    /\ call' = [fn |-> "normalizeLangTag", nth |-> 2, tag |-> call.ret,
                ret |-> normalizeLangTagOf(rev, call.ret)]
    /\ UNCHANGED <<loaded, inflight>>

InitTags ==
    /\ rev \in Revisions
    /\ FAQS = <<>>
    /\ DefaultConfig
    /\ call = NoCall
    /\ inflight = <<>>

NextTags ==
    \/ CallNormalizeLangTagOnTag
    \/ CallNormalizeLangTagAgain

SpecTags == InitTags /\ [][NextTags]_vars

(***************************************************************************)
(* Specification of the candidate builders: each call of the loaded        *)
(* revision's buildCandidates on an entry and a language is one step.      *)
(* The entries repeat texts within and across their fields and hold empty, *)
(* blank and padded texts; those of the per-language schema lack           *)
(* languages or hold empty values for them.                                *)
(***************************************************************************)
CandQuestions == {Absent, Str(<<>>), Str(<<"a">>), Str(<<"sp">> \o <<"a">>)}

CandLists ==
    { Absent, List(<<>>), List(<< <<"a">>, <<"b">>, <<"a">> >>),
      List(<< <<"sp">> \o <<"a">>, <<"a">>, <<>> >>), List(<< <<"b">>, <<"sp">>, <<"b">> >>) }

\* entries of the flat schema
FlatCandEntries ==
    { Entry(question, aliases, keywords_core, keywords_related) :
        question \in CandQuestions, aliases \in CandLists,
        keywords_core \in CandLists,
        keywords_related \in {Absent, List(<< <<"a">>, <<"b">>, <<"a">> >>)} }

\* entries of the per-language schema, and of both schemas at once
MapCandEntries ==
    { Entry(question, aliases, keywords_core, Absent) :
        question \in { Map([ko |-> <<"a">>, en |-> <<"b">>]), Map([en |-> <<"b">>, ja |-> <<"a">>]),
                       Map([ko |-> <<>>, en |-> <<"b">>]), Map([zh_tw |-> <<"a">>]),
                       Map([ja |-> <<"a">>, zh_tw |-> <<"b">>]), Str(<<"a">>) },
        aliases \in { Absent, Map([ko |-> << <<"a">> >>, en |-> << <<"b">>, <<"b">> >>]),
                      Map([en |-> << <<"b">> >>, ja |-> << <<"a">> >>]),
                      Map([ko |-> <<>>, en |-> << <<"b">> >>]) },
        keywords_core \in { Absent, Map([zh_tw |-> << <<"a">> >>]),
                            List(<< <<"a">>, <<"b">>, <<"a">> >>) } }

CandEntries(r) ==
    IF r = "v2.0.1" THEN FlatCandEntries \cup MapCandEntries ELSE FlatCandEntries

\* the language the handler passes: a tag normalizeLangTag of v2.0.1 returns
CandLangs == {"ko", "en", "ja", "zh_tw", "fr"}

CallBuildCandidates ==
    /\ rev \in {"v1-strong", "v1.2", "v1-hant"}
    /\ call.fn = "none"
    /\ call' = [fn |-> "buildCandidates", entry |-> FAQS[1], lang |-> "ko",
                ret |-> IF rev = "v1.2" THEN buildCandidates_v12(FAQS[1])
                        ELSE buildCandidates(FAQS[1])]
    /\ UNCHANGED <<loaded, inflight>>

CallBuildCandidates_v2 ==
    /\ rev = "v2.0.1"
    /\ call.fn = "none"
    /\ \E lang \in CandLangs :
         call' = [fn |-> "buildCandidates", entry |-> FAQS[1], lang |-> lang,
                  ret |-> buildCandidates_v2(FAQS[1], lang)]
    /\ UNCHANGED <<loaded, inflight>>

InitCandidates ==
    /\ rev \in Revisions
    /\ FAQS \in { <<e>> : e \in CandEntries(rev) }
    /\ DefaultConfig
    /\ call = NoCall
    /\ inflight = <<>>

NextCandidates ==
    \/ CallBuildCandidates
    \/ CallBuildCandidates_v2

SpecCandidates == InitCandidates /\ [][NextCandidates]_vars

(***************************************************************************)
(* Claims.                                                                 *)
(***************************************************************************)
Zero == Frac(0, 1)
One  == Frac(1, 1)

\* C10: normalization is idempotent: normalizing the result of clean (noSpace,
\* cleanText, removeSpaces) again returns it unchanged.
C10_IdempotentNormalization ==
    /\ call.fn = "clean"        => clean(call.ret) = call.ret
    /\ call.fn = "noSpace"      => noSpace(call.ret) = call.ret
    /\ call.fn = "cleanText"    => cleanText(call.ret) = call.ret
    /\ call.fn = "removeSpaces" => removeSpaces(call.ret) = call.ret

\* C7: every score is a number between 0 and 1.
C7_ScoreRange ==
    call.fn \in {"score", "calculateScore"} =>
        /\ call.ret.d > 0
        /\ FLe(Zero, call.ret)
        /\ FLe(call.ret, One)

C7_Witness ==
    /\ call.fn = "score"
    /\ FLt(Zero, call.ret)
    /\ FLt(call.ret, Hundredths(98))

\* the pairs the fuzzy tiers score: neither string empty, the two not equal,
\* neither a substring of the other (all after normalization)
IsFuzzyPair(q, c) ==
    LET Q == noSpace(q)
        C == noSpace(c)
    IN  Q # C /\ ~includes(Q, C) /\ ~includes(C, Q)

\* the bigram sets of the pair coincide or, when they share no bigram, its
\* character sets do
SetsCoincide(fn, q, c) ==
    IF fn = "score"
    THEN LET Q == noSpace(q)
             C == noSpace(c)
         IN  IF bigramSet(Q) \cap bigramSet(C) # {}
             THEN bigramSet(Q) = bigramSet(C)
             ELSE charSet(Q) = charSet(C)
    ELSE LET Q == removeSpaces(q)
             C == removeSpaces(c)
         IN  IF getBigramSet(Q) \cap getBigramSet(C) # {}
             THEN getBigramSet(Q) = getBigramSet(C)
             ELSE getCharSet(Q) = getCharSet(C)

\* C8 (as claimed): a pair that is neither equal nor in a substring relation
\* scores strictly below 1 and below the containment score 0.98.
C8_FuzzyBelowContainment ==
    (call.fn \in {"score", "calculateScore"} /\ IsFuzzyPair(call.q, call.c)) =>
        /\ FLt(call.ret, One)
        /\ FLt(call.ret, Hundredths(98))

\* C8 (amended): a pair that is neither equal nor in a substring relation
\* scores at most 1, and exactly 1 when its bigram sets coincide (or, sharing
\* no bigram, its character sets coincide): a fuzzy score never exceeds the
\* exact score but can equal it, and can exceed the containment score.
C8_FuzzyAtMostExact ==
    (call.fn \in {"score", "calculateScore"} /\ IsFuzzyPair(call.q, call.c)) =>
        /\ FLe(call.ret, One)
        /\ (call.ret = One) <=> SetsCoincide(call.fn, call.q, call.c)

C8_Witness ==
    /\ call.fn = "score"
    /\ IsFuzzyPair(call.q, call.c)
    /\ call.ret = One
    /\ bigramSet(call.q) = bigramSet(call.c)

IsMatchCall == call.fn \in {"bestMatch", "findBestMatch"}

\* the candidates the loaded revision builds for entry f
CandsOf(f, lang) ==
    IF rev = "v2.0.1" THEN buildCandidates_v2(FAQS[f], lang)
    ELSE IF rev = "v1.2" THEN buildCandidates_v12(FAQS[f])
    ELSE buildCandidates(FAQS[f])

\* the candidates of the corpus in iteration order, each with its entry
RECURSIVE CandsFrom(_, _)
CandsFrom(f, lang) ==
    IF f > Len(FAQS) THEN <<>>
    ELSE [k \in 1..Len(CandsOf(f, lang)) |-> [f |-> f, c |-> CandsOf(f, lang)[k]]]
             \o CandsFrom(f + 1, lang)

CorpusCandidates == CandsFrom(1, call.lang)

\* whitespace-stripped normalized text, and score, as the loaded revision
\* computes them
Normalized(text) ==
    IF rev \in {"v1-strong", "v1-hant"} THEN noSpace(text) ELSE removeSpaces(text)

QueryNorm == Normalized(trim(call.question))

ScoreOf(text) ==
    IF rev \in {"v1-strong", "v1-hant"} THEN score(trim(call.question), text)
    ELSE calculateScore(trim(call.question), text)

\* which candidates of cs have the query's whitespace-stripped normalized
\* text, and which attain the maximal score
ExactIn(cs) == [k \in DOMAIN cs |-> Normalized(cs[k].c.text) = QueryNorm]

MaxIn(cs) ==
    LET sc == [k \in DOMAIN cs |-> ScoreOf(cs[k].c.text)]
    IN  [k \in DOMAIN cs |-> \A j \in DOMAIN cs : FLe(sc[j], sc[k])]

IsFirst(good, k) == good[k] /\ \A j \in 1..(k - 1) : ~good[j]

\* the result is the candidate c of the corpus
Returns(c) ==
    /\ ~call.ret.null
    /\ call.ret.entry = c.f
    /\ call.ret.matched = c.c.text
    /\ call.ret.from = c.c.from

\* C1: for any corpus, any entry E and any query Q that is an exact copy of
\* one of E's candidate texts, the match selector returns an entry holding
\* that text with score 1.0, even when the whitespace-stripped length of Q
\* is below MIN_QUERY_CHARS.
C1_ExactMatchPriority ==
    IsMatchCall =>
        LET cs == CorpusCandidates
        IN  \A k \in DOMAIN cs :
                cs[k].c.text = call.question =>
                    /\ ~call.ret.null
                    /\ call.ret.score = One
                    /\ \E j \in DOMAIN cs :
                           /\ cs[j].f = call.ret.entry
                           /\ cs[j].c.text = call.question

\* C2: when the whitespace-stripped normalized query is shorter than
\* MIN_QUERY_CHARS, findBestMatch (bestMatch of v1-hant) returns null unless
\* some candidate's whitespace-stripped normalized text equals the query's.
C2_ShortQueryGuard ==
    (IsMatchCall /\ rev # "v1-strong") =>
        LET exact == ExactIn(CorpusCandidates)
        IN  (/\ Len(QueryNorm) < MIN_QUERY_CHARS
             /\ ~ \E k \in DOMAIN exact : exact[k])
                => call.ret.null

\* C3: when no candidate is an exact match, every non-null result of the
\* match selector has a score >= max(dynamicThreshold(query), HARD_MIN,
\* baseThreshold).
C3_ThresholdAcceptance ==
    IsMatchCall =>
        LET exact == ExactIn(CorpusCandidates)
        IN  (~ \E k \in DOMAIN exact : exact[k]) =>
                \/ call.ret.null
                \/ FLe(effectiveThreshold(trim(call.question), call.baseThreshold),
                       call.ret.score)

\* C5: when the corpus is the empty list the match selector returns null
\* for every query, language and configured threshold, and never a result
\* whose entry is null.
C5_EmptyCorpus ==
    (IsMatchCall /\ FAQS = <<>>) => call.ret.null

\* C6: for a query that normalizes to the empty string after stripping
\* whitespace and invisible characters the match selector returns null for
\* every corpus, also one holding a whitespace-only or zero-width-only
\* candidate.
C6_EmptyQuery ==
    (IsMatchCall /\ QueryNorm = <<>>) => call.ret.null

\* C9 as stated: a returned match is the first candidate, in corpus
\* iteration order, among those attaining the maximal score.
C9_FirstSeenTieBreak ==
    (IsMatchCall /\ ~call.ret.null) =>
        LET cs  == CorpusCandidates
            max == MaxIn(cs)
        IN  cs # <<>> =>
                \E k \in DOMAIN cs : IsFirst(max, k) /\ Returns(cs[k])

\* C9 amended: a returned match is the first candidate, in corpus iteration
\* order, among those whose whitespace-stripped normalized text equals the
\* query's when the selector has the exact fast path (every revision but
\* v1-strong) and there is one, and otherwise the first among those
\* attaining the maximal score.
C9_ExactThenFirstSeen ==
    (IsMatchCall /\ ~call.ret.null) =>
        LET cs    == CorpusCandidates
            exact == ExactIn(cs)
            max   == MaxIn(cs)
        IN  cs # <<>> =>
                IF rev # "v1-strong" /\ \E k \in DOMAIN cs : exact[k]
                THEN \E k \in DOMAIN cs : IsFirst(exact, k) /\ Returns(cs[k])
                ELSE \E k \in DOMAIN cs : IsFirst(max, k) /\ Returns(cs[k])

\* a tie at the maximal score between two candidates, none of them exact,
\* settled for the earlier one
C9_Witness ==
    /\ IsMatchCall
    /\ ~call.ret.null
    /\ LET cs    == CorpusCandidates
           exact == ExactIn(cs)
           max   == MaxIn(cs)
       IN  \E j, k \in DOMAIN cs :
               /\ j < k
               /\ IsFirst(max, j) /\ max[k]
               /\ ~exact[j] /\ ~exact[k]
               /\ Returns(cs[j])


(***************************************************************************)
(* Claims about answer selection, stated on the last call.                 *)
(***************************************************************************)
\* the language a key of an answers object, or a requested tag, stands for
LangOf(k) ==
    LET f == tagForm(k)
    IN  CASE f = <<"k", "o">> -> "ko"
          [] f = <<"e", "n">> -> "en"
          [] f = <<"j", "a">> -> "ja"
          [] f \in {<<"z", "h", "-", "t", "w">>, <<"z", "h", "-", "h", "a", "n", "t">>} -> "zh-hant"
          [] f \in {<<"z", "h", "-", "c", "n">>, <<"z", "h", "-", "h", "a", "n", "s">>} -> "zh-hans"
          [] OTHER -> "other"

\* the answers object of the entry of the last call, {} when it has none
AnswersOfCall ==
    IF call.entry.answers.t = "object" THEN call.entry.answers.v ELSE <<>>

\* the non-empty answers for language l, in insertion order
AnswersFor(l) ==
    SelectSeq(AnswersOfCall, LAMBDA p : p.v # <<>> /\ LangOf(p.k) = l)

NonEmptyAnswers == SelectSeq(AnswersOfCall, LAMBDA p : p.v # <<>>)

RECURSIVE FirstInOrder(_)
\* the first non-empty answer in the order of the languages ls, else the
\* first non-empty answer of any key
FirstInOrder(ls) ==
    IF ls = <<>> THEN NonEmptyAnswers[1].v
    ELSE IF AnswersFor(Head(ls)) # <<>> THEN AnswersFor(Head(ls))[1].v
    ELSE FirstInOrder(Tail(ls))

HasLegacyAnswer ==
    \E f \in {call.entry.answer, call.entry.answer_ko, call.entry.answer_ja,
              call.entry.answer_zh, call.entry.answer_en} : legacy(f) # <<>>

\* C11: when the entry has no non-empty answer for the requested language,
\* pickAnswer returns the first non-empty answer in the order Korean,
\* English, Japanese, Traditional Chinese, Simplified Chinese, and only then
\* any other available answer, first in insertion order.
C11_AnswerFallbackOrder ==
    (/\ call.fn = "pickAnswer"
     /\ NonEmptyAnswers # <<>>
     /\ AnswersFor(LangOf(call.lang)) = <<>>)
        => call.ret = FirstInOrder(<<"ko", "en", "ja", "zh-hant", "zh-hans">>)

\* C12: pickAnswer returns the empty string only if the entry has no
\* non-empty answer text in any form: no non-empty value in the answers
\* mapping, no legacy answer_* field, no default answer field.
C12_AnswerCompleteness ==
    (call.fn = "pickAnswer" /\ call.ret = <<>>)
        => (NonEmptyAnswers = <<>> /\ ~HasLegacyAnswer)


\* which call of language resolution the last step was
IsLangCall == call.fn \in {"normalizeLangTag", "detectLang", "handler"}

\* the canonical language tags
CanonicalTags == {<<"k", "o">>, <<"j", "a">>, <<"e", "n">>, <<"z", "h", "-", "h", "a", "n", "s">>, <<"z", "h", "-", "h", "a", "n", "t">>}

\* C14: every language tag that normalizeLangTag returns for a raw tag, that
\* detectLang returns for a query and a request, and that the handler
\* resolves for a request, is one of ko, ja, en, zh-hans, zh-hant.
C14_ClosedTagSet ==
    IsLangCall => call.ret \in CanonicalTags

\* a request's language parameters, and the request without them
ParamsOf(req) == {p \in {req.qlang, req.blang} : p # <<>>}
IsAuto(p) == toLowerCase(p) = <<"a", "u", "t", "o">>
WithoutParams(req) == [req EXCEPT !.qlang = <<>>, !.blang = <<>>]

\* C15: the language the handler resolves for a request whose only language
\* parameter is explicit (not "auto") is the normalization of that parameter,
\* whatever the query and the Accept-Language header; when every parameter
\* present is "auto" in any case, it is the language resolved for the same
\* request without the parameter, and never the tag auto, for GET and POST.
C15_ExplicitLanguageWins ==
    call.fn = "handler" =>
        LET req == call.req
            ps  == ParamsOf(req)
        IN  /\ \A p \in ps :
                  (ps = {p} /\ ~IsAuto(p)) =>
                      call.ret = normalizeLangTagOf(rev, p)
            /\ (ps # {} /\ \A p \in ps : IsAuto(p)) =>
                  /\ call.ret # <<"a", "u", "t", "o">>
                  /\ call.ret = resolveLang(rev, WithoutParams(req))

\* the scripts that occur in a query
HasKana(q) == hasHira(q) \/ hasKata(q)
LatinOnly(q) ==
    /\ q # <<>>
    /\ \A i \in 1..Len(q) : q[i] \in DOMAIN LowerOf \cup DOMAIN UpperOf

\* C16: for a request without a language parameter detectLang returns ko
\* when the query holds a Hangul syllable, ja when it holds kana and no
\* Hangul, and en when it consists of Latin letters, whatever the
\* Accept-Language header and whatever other scripts occur in the query.
C16_ScriptBeforeHeader ==
    (call.fn = "detectLang" /\ ParamsOf(call.req) = {}) =>
        LET q == call.req.question
        IN  /\ hasHangul(q) => call.ret = <<"k", "o">>
            /\ (HasKana(q) /\ ~hasHangul(q)) => call.ret = <<"j", "a">>
            /\ LatinOnly(q) => call.ret = <<"e", "n">>

\* C17: for a request without a language parameter and without an
\* Accept-Language header, detectLang returns ko when the query holds no
\* Hangul, kana, ideograph or Latin letter.
C17_DefaultKorean ==
    ( /\ call.fn = "detectLang"
      /\ ParamsOf(call.req) = {}
      /\ call.req.accept = <<>>
      /\ LET q == call.req.question
         IN  ~hasHangul(q) /\ ~HasKana(q) /\ ~hasHan(q) /\ ~hasLatin(q) )
    => call.ret = <<"k", "o">>

\* the calls of pickAnswer that the handlers have made: request i's handler
\* called it when its response carries a match, on the matched entry and
\* the language of the response, and its answer is what the call returned
Picked(i) ==
    /\ inflight[i].pc = "done"
    /\ "match" \in DOMAIN inflight[i].res
    /\ ~inflight[i].res.match = Null
PickedEntry(i) == FAQS[inflight[i].res.match.id]
PickedLang(i) == inflight[i].res.lang
PickedAnswer(i) == inflight[i].res.answer

MissingOf(e) == {f \in OptionalFields : e[f] = Absent}
OnlyLacks(e) == \E r \in Revisions : e = Lacking(FullEntry(r), MissingOf(e))
IsString(v) == DOMAIN v = 1..Len(v)

\* C18: on an entry that lacks any subset of question, aliases,
\* keywords_core, keywords_related, answers, url and url_title, none of
\* buildCandidates, the match selector and pickAnswer throws:
\* buildCandidates returns a list of candidates, the selector null or a
\* match, pickAnswer a string.
C18_MissingFieldsNeverFail ==
    (call.fn \in {"buildCandidates", "select", "pickAnswer"} /\ OnlyLacks(call.entry)) =>
        /\ ~call.ret.throws
        /\ call.fn = "buildCandidates" =>
              \A j \in 1..Len(call.ret.value) :
                  /\ call.ret.value[j].text # <<>>
                  /\ \/ call.ret.value[j].from = "question" /\ call.entry.question # Absent
                     \/ call.ret.value[j].from = "alias" /\ call.entry.aliases # Absent
                     \/ call.ret.value[j].from = "core" /\ call.entry.keywords_core # Absent
                     \/ call.ret.value[j].from = "related" /\ call.entry.keywords_related # Absent
        /\ call.fn = "select" => call.ret.value.null \in BOOLEAN
        /\ call.fn = "pickAnswer" =>
              /\ IsString(call.ret.value)
              /\ call.entry.answers = Absent => call.ret.value = <<>>

\* the selector ran its scoring loop over the corpus whose entry lacks every
\* optional field, and returned null
C18_Witness ==
    /\ call.fn = "select"
    /\ MissingOf(call.entry) = OptionalFields
    /\ Len(call.question) >= 2
    /\ call.ret = Returned(Null)

\* the response of request i is the one its handler gives when it runs alone
Independent(i) ==
    inflight[i].pc = "done" => inflight[i].res = respond(rev, inflight[i].req)

Contains(S, T) ==
    \E i \in 0..(Len(S) - Len(T)) : SubSeq(S, i + 1, i + Len(T)) = T
Bigrams(S) == {<<S[i], S[i + 1]>> : i \in 1..(Len(S) - 1)}
Chars(S) == {S[i] : i \in 1..Len(S)}
Jaccard(A, B) ==
    IF A \cup B = {} THEN Zero
    ELSE Frac(Cardinality(A \cap B), Cardinality(A \cup B))
Tier(Q, C) ==
    IF Q = <<>> \/ C = <<>> THEN Zero
    ELSE IF Q = C THEN One
    ELSE IF Contains(Q, C) \/ Contains(C, Q) THEN Hundredths(98)
    ELSE IF FLt(Zero, Jaccard(Bigrams(Q), Bigrams(C)))
         THEN Jaccard(Bigrams(Q), Bigrams(C))
         ELSE Jaccard(Chars(Q), Chars(C))

\* C20: with Q and C the stripped, normalized query and candidate, the
\* score is 0 if Q or C is empty, else 1.0 if Q = C, else 0.98 if one
\* contains the other, else the Jaccard similarity of the bigram sets of Q
\* and C if that is positive, else that of their character sets.
C20_ScoreTiers ==
    /\ call.fn = "score" =>
          call.ret = Tier(noSpace(call.q), noSpace(call.c))
    /\ call.fn = "calculateScore" =>
          call.ret = Tier(removeSpaces(call.q), removeSpaces(call.c))

(***************************************************************************)
(* Claims about the algebra of the scorers.                                *)
(***************************************************************************)
\* C21: the score is symmetric: score(q, c) = score(c, q) for every pair of
\* strings, whichever tier produces it (exact, containment, bigram Jaccard,
\* character Jaccard); the same for calculateScore.
C21_ScoreSymmetry ==
    /\ call.fn = "score" => call.ret = score(call.c, call.q)
    /\ call.fn = "calculateScore" => call.ret = calculateScore(call.c, call.q)

\* a pair scored by the bigram tier whose two bigram sets differ in size
C21_Witness ==
    /\ call.fn = "score"
    /\ IsFuzzyPair(call.q, call.c)
    /\ Cardinality(bigramSet(call.q)) < Cardinality(bigramSet(call.c))
    /\ FLt(Zero, call.ret)
    /\ FLt(call.ret, One)
    /\ call.ret = score(call.c, call.q)

(***************************************************************************)
(* Claims about dynamicThreshold taken alone.                              *)
(***************************************************************************)
\* the value the tiers give to a query of n characters
TierValue(n) ==
    IF n <= 1 THEN Hundredths(100)
    ELSE IF n = 2 THEN Hundredths(98)
    ELSE IF n = 3 THEN Hundredths(60)
    ELSE IF n <= 5 THEN Hundredths(40)
    ELSE DEFAULT_THRESHOLD

\* no shorter query has a lower dynamic threshold than the query of the call
NoShorterIsLower ==
    \A q2 \in ThresholdQueries :
        Len(noSpace(q2)) < Len(noSpace(call.question)) =>
            FLe(call.ret, dynamicThreshold(q2))

IsChineseTag(tag) ==
    LET t == toLowerCase(tag)
    IN  t = <<"z", "h">> \/ startsWith(t, <<"z", "h", "-">>) \/ startsWith(t, <<"z", "h", "_">>)

\* the tag carries one of the markers tw, hk, mo, hant
HasTraditionalMarker(tag) ==
    LET t == toLowerCase(tag)
    IN  \E mark \in {<<"t", "w">>, <<"h", "k">>, <<"m", "o">>, <<"h", "a", "n", "t">>} : includes(t, mark)

\* C23: normalizeLangTag maps every Chinese tag to zh-hant when it carries a
\* Traditional marker (tw, hk, mo, hant) and to zh-hans otherwise: ambiguous
\* Chinese defaults to Simplified.
C23_ChineseTagPolicy ==
    (call.fn = "normalizeLangTag" /\ IsChineseTag(call.tag)) =>
        call.ret = IF HasTraditionalMarker(call.tag) THEN <<"z", "h", "-", "h", "a", "n", "t">> ELSE <<"z", "h", "-", "h", "a", "n", "s">>

\* C30: normalizeLangTag is idempotent: applied to its own result, for every
\* raw tag (any case, any number of separators, surrounding spaces, known or
\* unknown language), it returns that result unchanged.
C30_IdempotentTag ==
    (call.fn = "normalizeLangTag" /\ call.nth = 2) => call.ret = call.tag

(***************************************************************************)
(* Claims about the candidate builders.                                    *)
(***************************************************************************)
\* the provenances in the order of the builder
Rank(from) ==
    CASE from = "question" -> 1
      [] from = "alias"    -> 2
      [] from = "core"     -> 3
      [] from = "related"  -> 4

FieldOf(from) ==
    CASE from = "question" -> "question"
      [] from = "alias"    -> "aliases"
      [] from = "core"     -> "keywords_core"
      [] from = "related"  -> "keywords_related"

\* the texts of the candidates of one provenance, in order
GroupTexts(cands, from) ==
    LET group == SelectSeq(cands, LAMBDA c : c.from = from)
    IN  [k \in 1..Len(group) |-> group[k].text]

\* the non-empty texts of a list, each at its first occurrence
FirstOccurrences(list) ==
    LET kept[i \in 0..Len(list)] ==
            IF i = 0 THEN <<>>
            ELSE IF list[i] = <<>> \/ \E k \in 1..Len(kept[i - 1]) : kept[i - 1][k] = list[i]
                 THEN kept[i - 1]
                 ELSE Append(kept[i - 1], list[i])
    IN  kept[Len(list)]

\* a text as the loaded revision stores it in a candidate
Stored(text) == IF rev = "v2.0.1" THEN trim(text) ELSE text
StoredAll(list) == [k \in 1..Len(list) |-> Stored(list[k])]

\* the lists of texts a field can contribute: its value in the flat schema,
\* its value for one language (or for none) in the per-language schema
SourcesOf(e, from) ==
    LET field == e[FieldOf(from)]
    IN  CASE field.t = "absent" -> {<<>>}
          [] field.t = "str"    -> {<<field.v>>}
          [] field.t = "list"   -> {field.v}
          [] field.t = "map"    ->
                {<<>>} \cup { IF from = "question" THEN <<field.v[l]>> ELSE field.v[l] :
                                 l \in DOMAIN field.v }

PriorityOrder == <<"ko", "en", "ja", "zh_tw">>

\* the value of a per-language field for lang when it is there and not
\* empty, else the first non-empty value in the priority order, else empty
RECURSIVE FirstNonEmpty(_, _)
FirstNonEmpty(m, langs) ==
    IF langs = <<>> THEN <<>>
    ELSE IF Head(langs) \in DOMAIN m /\ m[Head(langs)] # <<>> THEN m[Head(langs)]
    ELSE FirstNonEmpty(m, Tail(langs))

ValueWithFallback(m, lang) == FirstNonEmpty(m, <<lang>> \o PriorityOrder)

\* C25: for a field given per language, buildCandidates(entry, lang) uses the
\* value for lang and, when that value is absent or empty, the first
\* non-empty value in the order ko, en, ja, zh-hant: for the question and for
\* each of the list fields.
C25_PerLanguageFallback ==
    (call.fn = "buildCandidates" /\ rev = "v2.0.1") =>
        \A from \in {"question", "alias", "core", "related"} :
            LET field == call.entry[FieldOf(from)]
                value == ValueWithFallback(field.v, call.lang)
            IN  field.t = "map" =>
                    GroupTexts(call.ret, from) =
                        FirstOccurrences(StoredAll(IF from = "question" THEN <<value>> ELSE value))

\* an entry of the flat schema: no field is given per language
IsFlat(e) ==
    \A field \in {"question", "aliases", "keywords_core", "keywords_related"} :
        e[field].t # "map"

\* C26: the flat schema is language-agnostic: over a corpus of flat entries
\* buildCandidates(entry, lang) is the same list for every lang, and
\* findBestMatch(query, lang) returns the same entry, matched text,
\* provenance and score (or null) for every lang.
C26_FlatSchemaLanguageAgnostic ==
    (/\ call.fn = "findBestMatch"
     /\ rev = "v2.0.1"
     /\ \A f \in 1..Len(FAQS) : IsFlat(FAQS[f])) =>
        \A lang \in CandLangs :
            /\ \A f \in 1..Len(FAQS) :
                  buildCandidates_v2(FAQS[f], lang) = buildCandidates_v2(FAQS[f], call.lang)
            /\ findBestMatch(call.question, lang) = call.ret

\* a fuzzy match on an alias of the second of two flat entries, for English
C26_Witness ==
    /\ call.fn = "findBestMatch"
    /\ rev = "v2.0.1"
    /\ call.lang = "en"
    /\ Len(FAQS) = 2
    /\ IsFlat(FAQS[1]) /\ IsFlat(FAQS[2])
    /\ ~call.ret.null
    /\ call.ret.entry = 2
    /\ call.ret.from = "alias"
    /\ FLt(call.ret.score, One)
    /\ call.ret = findBestMatch(call.question, "ko")

(***************************************************************************)
(* Claims about the keys of entry.answers.                                 *)
(***************************************************************************)
\* the case and separator variants of a key: as written, in upper and in
\* lower case, with its language subtag alone in lower case, each with '_',
\* with '-' or with the separator as written
Variants(k) ==
    LET cases == {k, toUpperCase(k), toLowerCase(k),
                  [i \in 1..Len(k) |-> IF i <= 2 THEN lowerChar(k[i]) ELSE upperChar(k[i])]}
    IN  UNION { {c, replaceFirst(c, "_", "-"), replaceFirst(c, "-", "_")} : c \in cases }

\* the entry with the key of its i-th answer replaced by k2
WithKey(entry, i, k2) ==
    [entry EXCEPT !.answers = Obj([entry.answers.v EXCEPT ![i].k = k2])]

\* the tags of the loaded revision for Traditional and Simplified Chinese
TraditionalTag == IF rev = "v2.0.1" THEN <<"z", "h", "_", "t", "w">> ELSE <<"z", "h", "-", "h", "a", "n", "t">>
SimplifiedTag == <<"z", "h", "-", "h", "a", "n", "s">>

\* the entry has a direct answer for the tag, under any variant of it
HasDirect(ans, tag) == \E j \in 1..Len(ans) : tag \in Variants(ans[j].k)

\* C27: the result of pickAnswer does not change when a key of entry.answers
\* is replaced by a case or separator variant of the same tag, and an answer
\* stored under the regional key zh-tw (zh-cn) is returned for the request
\* language zh-hant (zh-hans).
C27_AnswerKeyTolerance ==
    (call.fn = "pickAnswer" /\ call.entry.answers.t = "object") =>
        LET ans == call.entry.answers.v
        IN  \A i \in 1..Len(ans) :
              /\ \A k2 \in Variants(ans[i].k) :
                    (\A j \in 1..Len(ans) : j # i => ans[j].k # k2) =>
                        pickAnswerOf(rev, WithKey(call.entry, i, k2), call.lang) = call.ret
              /\ (/\ <<"z", "h", "-", "t", "w">> \in Variants(ans[i].k)
                  /\ ans[i].v # <<>>
                  /\ call.lang = TraditionalTag
                  /\ ~HasDirect(ans, <<"z", "h", "-", "h", "a", "n", "t">>)) => call.ret = ans[i].v
              /\ (/\ <<"z", "h", "-", "c", "n">> \in Variants(ans[i].k)
                  /\ ans[i].v # <<>>
                  /\ call.lang = SimplifiedTag
                  /\ rev # "v2.0.1"
                  /\ ~HasDirect(ans, <<"z", "h", "-", "h", "a", "n", "s">>) /\ ~HasDirect(ans, <<"z", "h">>)) => call.ret = ans[i].v

(***************************************************************************)
(* Claims about the exact-match fast path and the shape of a result.       *)
(***************************************************************************)
\* the threshold the loaded revision tests the best score against
ThresholdOfCall ==
    IF rev \in {"v1-strong", "v1-hant"}
    THEN effectiveThreshold(trim(call.question), call.baseThreshold)
    ELSE DEFAULT_THRESHOLD

\* the selector without the fast path: a full scan with the revision's
\* scorer, the first candidate attaining the maximal score, returned when
\* that score reaches the threshold
FullScan(cs) ==
    LET max == MaxIn(cs)
        k   == CHOOSE k \in DOMAIN cs : IsFirst(max, k)
    IN  IF cs = <<>> THEN Null
        ELSE IF FLe(ThresholdOfCall, ScoreOf(cs[k].c.text))
             THEN Match(ScoreOf(cs[k].c.text), cs[k].f, cs[k].c.text, cs[k].c.from)
             ELSE Null

\* the calls the claim is about: a query of at least MIN_QUERY_CHARS
\* characters, thresholds of at most 1
IsLongQueryCall ==
    /\ IsMatchCall
    /\ Len(QueryNorm) >= MIN_QUERY_CHARS
    /\ FLe(ThresholdOfCall, One)

\* a candidate that is not exact scores 1.0 before the first exact one
FuzzyOneBeforeExact(cs) ==
    LET exact == ExactIn(cs)
    IN  \E j, k \in DOMAIN cs :
            j < k /\ IsFirst(exact, k) /\ ScoreOf(cs[j].c.text) = One

\* C28 (as claimed): for a query of at least MIN_QUERY_CHARS characters the
\* selector with the exact-match fast path returns what the selector without
\* it returns: the same entry, matched text, provenance and score, or null.
C28_FastPathIsOptimization ==
    IsLongQueryCall => call.ret = FullScan(CorpusCandidates)

\* C28 (amended): the same unless a candidate that is not exact scores 1.0
\* before the first exact candidate; then the selector with the fast path
\* returns the first exact candidate and the full scan the earlier one, both
\* with score 1.0.
C28_FastPathUnlessFuzzyOne ==
    IsLongQueryCall =>
        LET cs   == CorpusCandidates
            full == FullScan(cs)
        IN  IF rev # "v1-strong" /\ FuzzyOneBeforeExact(cs)
            THEN /\ \E k \in DOMAIN cs : IsFirst(ExactIn(cs), k) /\ Returns(cs[k])
                 /\ call.ret.score = One
                 /\ ~full.null /\ full.score = One
                 /\ full # call.ret
            ELSE call.ret = full

\* the fast path of v1.2 ends the scan at an exact candidate of the second
\* entry, the one a full scan returns
C28_Witness ==
    /\ IsLongQueryCall
    /\ rev = "v1.2"
    /\ Len(FAQS) = 2
    /\ LET cs == CorpusCandidates
       IN  /\ \E k \in DOMAIN cs :
                 /\ IsFirst(ExactIn(cs), k)
                 /\ cs[k].f = 2
                 /\ k < Len(cs)
                 /\ Returns(cs[k])
           /\ call.ret = FullScan(cs)

\* C29: every non-null result of the match selector has an entry of the
\* corpus, a matched text and a provenance that form one of the candidates
\* of that entry, and a score that is the score of the query and the matched
\* text and lies between 0 and 1: for every corpus, query, language and
\* configured threshold.
C29_WellFormedResult ==
    (IsMatchCall /\ ~call.ret.null) =>
        /\ call.ret.entry \in 1..Len(FAQS)
        /\ \E k \in 1..Len(CandsOf(call.ret.entry, call.lang)) :
              CandsOf(call.ret.entry, call.lang)[k] = Cand(call.ret.matched, call.ret.from)
        /\ call.ret.score = ScoreOf(call.ret.matched)
        /\ FLe(Zero, call.ret.score)
        /\ FLe(call.ret.score, One)
====
